---- MODULE Spec2Model ----
(***************************************************************************)
(* Nazca360 backend (src/backend/server.py): the reservation ledger, the   *)
(* payment correlation (Stripe checkout, status polls, webhook), the       *)
(* availability resolver, the chunked upload routes and the streaming      *)
(* endpoint, as a state machine.  Every request handler is a               *)
(* sequence of steps, one per awaited database or provider call, so that   *)
(* concurrent requests interleave exactly at the handler's awaits.         *)
(***************************************************************************)
EXTENDS Integers, Sequences, FiniteSets, TLC

VARIABLES
    reservations,          \* db.reservations, in insertion order
    payment_transactions,  \* db.payment_transactions, in insertion order
    subscriptions,         \* db.subscriptions, in insertion order
    users,                 \* db.users: user_id -> subscription_plan
    stripe,                \* the provider's checkout sessions: session id -> payment_status
    now,                   \* datetime.now(), in days
    req,                   \* the requests being served: slot -> handler position and locals
    uploads,               \* the uploads/ directory: file name -> content
    chunked_uploads,       \* the module's dict of upload sessions: upload_id -> upload_info
    uuids,                 \* how many uuid4() values the upload routes have drawn
    arrivals,              \* history: the (upload_id, chunk_index, content) written, in arrival order
    registered,            \* db.users: the documents register inserted, in insertion order
    mail,                  \* history: the addresses the SMTP server accepted a message for
    user_sessions,         \* db.user_sessions, in insertion order
    is_blocked,            \* db.users: user_id -> is_blocked
    password_hash,         \* db.users: user_id -> password_hash
    tokens                 \* history: the access tokens login returned

vars == <<reservations, payment_transactions, subscriptions, users, stripe, now, req,
          uploads, chunked_uploads, uuids, arrivals, registered, mail,
          user_sessions, is_blocked, password_hash, tokens>>

files == <<uploads, chunked_uploads, uuids, arrivals>>

logins == <<user_sessions, is_blocked, password_hash, tokens>>

identity == <<registered, mail, logins>>

db == <<reservations, payment_transactions, subscriptions, users>>

(***************************************************************************)
(* Bounds of the model.                                                    *)
(***************************************************************************)
MaxSessions == 2   \* checkout sessions the provider opens in one behaviour
MaxReq == 2        \* requests served concurrently
MaxNow == 2        \* days the clock advances
MaxUploads == 1    \* uuid4() values the upload routes draw in one behaviour
MaxChunks == 3     \* upload_chunk requests admitted in one behaviour
MaxChunkSize == 2  \* bytes in one partial response: the program's 1024 * 1024, scaled
MaxRegistered == 3 \* register requests admitted in one behaviour
MaxLogins == 2     \* login requests admitted in one behaviour

(***************************************************************************)
(* Inputs.                                                                 *)
(***************************************************************************)
UserIds == {"u1", "u2"}

\* The accounts of db.users: the customers and an administrator.
Accounts == UserIds \cup {"admin"}

\* User.role: "user" or "admin".
role(user_id) == IF user_id = "admin" THEN "admin" ELSE "user"

\* f"{start_time}-{end_time}" with start_time = f"{hour:02d}:{minute:02d}": the
\* label is the four numbers it prints (two digits each, so printing is injective).
SlotLabel(hour, minute, end_hour, end_minute) == <<hour, minute, end_hour, end_minute>>

\* The (reservation_date, time_slot, cabin_number) bodies clients post: a catalog
\* slot on two dates and two cabins, a cabin outside 1..3, and the label the
\* repository's own test posts ("10:00-11:00"), which is no catalog slot.
Booking(d, s, c) == [reservation_date |-> d, time_slot |-> s, cabin_number |-> c]

BookingInputs ==
    { Booking("2025-03-01", SlotLabel(9, 0, 9, 20), 1),
      Booking("2025-03-01", SlotLabel(9, 0, 9, 20), 2),
      Booking("2025-03-02", SlotLabel(9, 0, 9, 20), 1),
      Booking("2025-03-01", SlotLabel(10, 0, 11, 0), 1),
      Booking("2025-03-01", SlotLabel(9, 0, 9, 20), 4) }

NoBooking == Booking("", <<>>, 0)

\* The status strings clients put in PUT /reservations/{id}?status=...
StatusInputs == {"cancelled", "confirmed", "archived"}

\* plan_type values clients post ("premium" is what the repository's test posts).
PlanInputs == {"daily", "premium"}

\* Event types the provider's webhook delivers.
EventInputs == {"checkout.session.completed", "checkout.session.expired"}

(***************************************************************************)
(* SUBSCRIPTION_PACKAGES                                                   *)
(***************************************************************************)
SUBSCRIPTION_PACKAGES == {"daily", "weekly", "monthly", "annual"}

duration_days(plan_type) ==
    CASE plan_type = "daily" -> 1
      [] plan_type = "weekly" -> 7
      [] plan_type = "monthly" -> 30
      [] plan_type = "annual" -> 365

\* SUBSCRIPTION_PACKAGES.get(plan_type, SUBSCRIPTION_PACKAGES['monthly'])
plan_config(plan_type) ==
    IF plan_type \in SUBSCRIPTION_PACKAGES THEN duration_days(plan_type)
    ELSE duration_days("monthly")

(***************************************************************************)
(* The document store: find_one returns, and update_one changes, the first  *)
(* matching document in insertion order (0: no document matches).          *)
(***************************************************************************)
FirstIndex(matching) ==
    IF matching = {} THEN 0
    ELSE CHOOSE i \in matching : \A j \in matching : i <= j

Min(a, b) == IF a <= b THEN a ELSE b

\* cursor.to_list(length): the first documents the query matches, at most length.
to_list(cursor, length) == SubSeq(cursor, 1, Min(length, Len(cursor)))

(***************************************************************************)
(* Requests.  A slot of req holds one request: the handler (op), where it  *)
(* stands (pc), its arguments and locals, and, once it returned, its       *)
(* outcome (result).  paid_at_start is a history value, read by no         *)
(* handler: whether the session's transaction was paid when the request    *)
(* arrived.                                                                *)
(***************************************************************************)
\* A file of uploads/: f"{id}{suffix}" for an uploaded file, and
\* f"{id}_chunk_{chunk}" for a chunk of an upload session (kind "chunk").
FileName(id, suffix) == [kind |-> "file", id |-> id, chunk |-> 0, suffix |-> suffix]

NoName == [kind |-> "", id |-> 0, chunk |-> 0, suffix |-> ""]

\* The Authorization header of a request: absent (scheme ""), another scheme,
\* or "Bearer <jwt>" with the token's sub and exp claims and whether its
\* signature verifies under JWT_SECRET_KEY.
Bearer(sub, exp, signed) == [scheme |-> "Bearer", sub |-> sub, exp |-> exp, signed |-> signed]

NoAuthorization == [scheme |-> "", sub |-> "", exp |-> 0, signed |-> FALSE]

\* The detail of a 400 of complete_chunked_upload: the two numbers it prints.
NoDetail == [received |-> -1, total |-> -1]

\* The Authorization headers clients send: none, another scheme, a token whose
\* signature does not verify, an expired token, tokens in force for a customer,
\* for the administrator and for an account that is not in db.users, and a
\* token without sub.
CredentialInputs ==
    { NoAuthorization,
      [scheme |-> "Basic", sub |-> "u1", exp |-> 0, signed |-> FALSE],
      Bearer("u1", MaxNow + 1, FALSE),
      Bearer("u1", 0, TRUE),
      Bearer("u1", MaxNow + 1, TRUE),
      Bearer("admin", MaxNow + 1, TRUE),
      Bearer("ghost", MaxNow + 1, TRUE),
      Bearer("", MaxNow + 1, TRUE) }

\* The total_chunks and chunk_index values clients send (index 2 is out of
\* range for a session of 2 chunks), and the body sent with chunk_index: the
\* piece of the client's file at that index.
TotalChunksInputs == {2, 3}
ChunkIndexInputs == 0..2
piece(chunk_index) == <<chunk_index>>

\* Another body for the same index: the piece of a revised file.
revised(chunk_index) == <<chunk_index + 10, chunk_index + 10>>

\* The suffixes of the files clients upload, and the content of an upload.
\* A Range header is absent or a text; the text is a sequence of tokens: the
\* unit prefix, a numeral, the dash, or anything else.
num(n) == [t |-> "num", n |-> n]
sym(t) == [t |-> t, n |-> 0]
NoRange == [present |-> FALSE, text |-> <<>>]
Range(text) == [present |-> TRUE, text |-> text]
Offsets == 0..3
WellFormedRanges ==
    {Range(<<sym("bytes="), num(start), sym("-"), num(end)>>) : start, end \in Offsets}
OpenRanges ==
    {Range(<<sym("bytes="), num(start), sym("-")>>) : start \in Offsets}
        \cup {Range(<<sym("bytes="), sym("-"), num(end)>>) : end \in Offsets}
MalformedRanges ==
    { Range(<<sym("bytes="), sym("abc"), sym("-"), num(1)>>),
      Range(<<sym("bytes="), num(0), sym("-"), sym("abc")>>),
      Range(<<sym("bytes="), num(0)>>),
      Range(<<sym("items="), num(0), sym("-"), num(1)>>) }
RangeInputs ==
    {NoRange, Range(<<>>)} \cup WellFormedRanges \cup OpenRanges \cup MalformedRanges
NoResponse ==
    [status |-> 0, start |-> -1, end |-> -1, file_size |-> -1, content_length |-> -1,
     body |-> <<>>]

\* The accounts of db.users: their email, whether the account came from the
\* OAuth flow (then it has no password_hash), and the password the others
\* were registered with.  All of them are verified.
email_of(user_id) ==
    CASE user_id = "u1" -> "u1@example.com"
      [] user_id = "u2" -> "u2@example.com"
      [] user_id = "admin" -> "admin@example.com"
      [] OTHER -> ""
oauth_provider(user_id) == IF user_id = "u2" THEN "google" ELSE ""
is_verified(user_id) == TRUE
LoginEmails == {email_of(u) : u \in Accounts} \cup {"invalid@example.com"}
PasswordInputs == {"secret", "changed"}

\* RegisterRequest.email
EmailInputs == {"ana@example.com", "luis@example.com", "rosa@example.com"}
SuffixInputs == {".mp4", ".jpg"}
ContentInputs == {<<1, 2, 3>>}

Idle ==
    [ op |-> "none", pc |-> "idle", user |-> "", booking |-> NoBooking,
      reservation_id |-> 0, status |-> "", plan_type |-> "", session_id |-> 0,
      txn_status |-> "", txn_type |-> "", txn_user |-> "",
      paid_at_start |-> FALSE, result |-> "",
      filename |-> NoName, authorization |-> NoAuthorization, upload_id |-> 0,
      total_chunks |-> 0, chunk_index |-> 0, content |-> <<>>, offset |-> 0,
      detail |-> NoDetail, range |-> NoRange, response |-> NoResponse,
      slots |-> <<>>, email |-> "" ]

ReqIds == 1..MaxReq

Free(q) == req[q].pc \in {"idle", "done"}

InFlight == {q \in ReqIds : ~Free(q)}

\* A request that has returned keeps its handler's name and its outcome; a
\* refused checkout also keeps the booking it asked for, a refused status update
\* who asked and for which reservation (what the error is about), a stream
\* request the file and the Authorization header it came with, a completion of
\* an upload its session and the detail of its error.
Return(r, outcome) ==
    [ Idle EXCEPT !.op = r.op, !.pc = "done", !.result = outcome,
                  !.booking = IF outcome = "SlotConflict" \/ r.op = "slots"
                              THEN r.booking ELSE NoBooking,
                  !.slots = r.slots,
                  !.email = IF r.op \in {"register", "login", "reset"} THEN r.email ELSE "",
                  !.user = IF \/ r.op = "update" /\ outcome = "NotFound"
                              \/ r.op \in {"block", "unblock"}
                           THEN r.user ELSE "",
                  !.reservation_id =
                      IF r.op = "update" /\ outcome = "NotFound"
                      THEN r.reservation_id ELSE 0,
                  !.filename = IF r.op = "stream" THEN r.filename ELSE NoName,
                  !.authorization =
                      IF r.op \in {"stream", "login", "me", "logout"}
                      THEN r.authorization ELSE NoAuthorization,
                  !.upload_id = IF r.op = "complete" THEN r.upload_id ELSE 0,
                  !.detail = r.detail,
                  !.range = IF r.op = "stream" THEN r.range ELSE NoRange,
                  !.response = r.response ]

\* Sessions opened so far plus those the requests in flight are about to open.
SessionsClaimed ==
    Len(stripe) + Cardinality({q \in ReqIds : req[q].pc = "session"})

TxnOf(session_id) ==
    FirstIndex({i \in 1..Len(payment_transactions) :
                   payment_transactions[i].session_id = session_id})

TxnPaid(session_id) ==
    /\ TxnOf(session_id) # 0
    /\ payment_transactions[TxnOf(session_id)].payment_status = "paid"

(***************************************************************************)
(* Slot catalog and availability (get_available_slots).                    *)
(***************************************************************************)
Hours == 9..17              \* range(9, 18)
Minutes == <<0, 20, 40>>    \* [0, 20, 40]

\* Mutant of slot_of: the end minute is not carried into the hour.
slot_of_uncarried(hour, minute) == SlotLabel(hour, minute, hour, minute + 20)

slot_of(hour, minute) ==
    LET end_minute == minute + 20
    IN  IF end_minute >= 60
        THEN SlotLabel(hour, minute, hour + 1, end_minute - 60)
        ELSE SlotLabel(hour, minute, hour, end_minute)

\* The nested loops, hour outermost.
all_slots ==
    [ i \in 1..(Cardinality(Hours) * Len(Minutes)) |->
        slot_of(9 + ((i - 1) \div Len(Minutes)), Minutes[((i - 1) % Len(Minutes)) + 1]) ]

\* find({reservation_date, cabin_number, status: {$ne: cancelled}}).to_list(100)
\* on the ledger, then the catalog slots that are not among the booked ones.
slots_free_in(ledger, date, cabin_number) ==
    LET found == to_list(SelectSeq(ledger,
                                   LAMBDA r : /\ r.reservation_date = date
                                              /\ r.cabin_number = cabin_number
                                              /\ r.status # "cancelled"),
                         100)
        booked_slots == {found[i].time_slot : i \in 1..Len(found)}
    IN  SelectSeq(all_slots, LAMBDA slot : slot \notin booked_slots)

\* find({reservation_date, status: {$ne: cancelled}}).to_list(1000), then for
\* one catalog slot the list of booked cabins (one entry per reservation), 3
\* minus its length, and the cabins of 1, 2, 3 not in it.
slot_entry(ledger, date, slot) ==
    LET found == to_list(SelectSeq(ledger,
                                   LAMBDA r : /\ r.reservation_date = date
                                              /\ r.status # "cancelled"),
                         1000)
        booked_cabins == SelectSeq(found, LAMBDA r : r.time_slot = slot)
    IN  [ time_slot |-> slot,
          available_cabins_count |-> 3 - Len(booked_cabins),
          available_cabin_numbers |->
              SelectSeq(<<1, 2, 3>>,
                        LAMBDA c : \A k \in 1..Len(booked_cabins) :
                                      booked_cabins[k].cabin_number # c) ]

\* The slots whose count is positive, in catalog order.
slots_listed_in(ledger, date) ==
    LET entries == [ i \in 1..Len(all_slots) |-> slot_entry(ledger, date, all_slots[i]) ]
    IN  SelectSeq(entries, LAMBDA e : e.available_cabins_count > 0)

\* GET /reservations/available?date=..&cabin_number=..
available_slots(date, cabin_number) == slots_free_in(reservations, date, cabin_number)

\* GET /reservations/available?date=..
slots_with_availability(date) == slots_listed_in(reservations, date)

\* The handler: one query on the ledger, then the answer.  cabin_number 0
\* stands for a request without cabin_number ("if cabin_number:").
get_available_slots(q, date, cabin_number) ==
    /\ Free(q)
    /\ req' = [req EXCEPT ![q] =
                 Return([Idle EXCEPT !.op = "slots",
                                     !.booking = Booking(date, <<>>, cabin_number),
                                     !.slots = IF cabin_number # 0
                                               THEN available_slots(date, cabin_number)
                                               ELSE slots_with_availability(date)],
                        "ok")]
    /\ UNCHANGED <<files, reservations, payment_transactions, subscriptions, users,
                   stripe, now, identity>>

(***************************************************************************)
(* POST /reservations/checkout: create_reservation_checkout                *)
(***************************************************************************)
\* Mutant of existing: the query matches confirmed reservations only, so a
\* pending reservation does not block a second checkout.
existing_confirmed_only(b) ==
    FirstIndex({i \in 1..Len(reservations) :
                   /\ reservations[i].reservation_date = b.reservation_date
                   /\ reservations[i].time_slot = b.time_slot
                   /\ reservations[i].cabin_number = b.cabin_number
                   /\ reservations[i].status = "confirmed"})

\* Mutant of existing: the query leaves out cabin_number, so a reservation of
\* another cabin blocks the checkout.
existing_any_cabin(b) ==
    FirstIndex({i \in 1..Len(reservations) :
                   /\ reservations[i].reservation_date = b.reservation_date
                   /\ reservations[i].time_slot = b.time_slot
                   /\ reservations[i].status # "cancelled"})

\* find_one({reservation_date, time_slot, cabin_number, status: {$ne: cancelled}})
existing(b) ==
    FirstIndex({i \in 1..Len(reservations) :
                   /\ reservations[i].reservation_date = b.reservation_date
                   /\ reservations[i].time_slot = b.time_slot
                   /\ reservations[i].cabin_number = b.cabin_number
                   /\ reservations[i].status # "cancelled"})

\* The request arrives: cabin validation, then the conflict query.
create_reservation_checkout(q, u, b) ==
    /\ Free(q)
    /\ LET r == [Idle EXCEPT !.op = "create", !.user = u, !.booking = b]
       IN  IF b.cabin_number \notin {1, 2, 3}
           THEN req' = [req EXCEPT ![q] = Return(r, "InvalidCabin")]
           ELSE IF existing(b) # 0
           THEN req' = [req EXCEPT ![q] = Return(r, "SlotConflict")]
           ELSE /\ SessionsClaimed < MaxSessions
                /\ req' = [req EXCEPT ![q] = [r EXCEPT !.pc = "session"]]
    /\ UNCHANGED <<files, reservations, payment_transactions, subscriptions, users, stripe, now,
                   identity>>

\* stripe_checkout.create_checkout_session: the provider opens a session.
create_reservation_session(q) ==
    /\ req[q].op = "create" /\ req[q].pc = "session"
    /\ stripe' = Append(stripe, "unpaid")
    /\ req' = [req EXCEPT ![q].pc = "insert_reservation",
                          ![q].session_id = Len(stripe) + 1]
    /\ UNCHANGED <<files, reservations, payment_transactions, subscriptions, users, now,
                   identity>>

\* db.reservations.insert_one: the pending reservation.
create_reservation_insert(q) ==
    /\ req[q].op = "create" /\ req[q].pc = "insert_reservation"
    /\ reservations' =
          Append(reservations,
                 [ id |-> Len(reservations) + 1,
                   user_id |-> req[q].user,
                   reservation_date |-> req[q].booking.reservation_date,
                   time_slot |-> req[q].booking.time_slot,
                   cabin_number |-> req[q].booking.cabin_number,
                   status |-> "pending",
                   stripe_session_id |-> req[q].session_id ])
    /\ req' = [req EXCEPT ![q].pc = "insert_transaction"]
    /\ UNCHANGED <<files, payment_transactions, subscriptions, users, stripe, now,
                   identity>>

\* db.payment_transactions.insert_one: metadata type "reservation", no plan_type.
create_reservation_transaction(q) ==
    /\ req[q].op = "create" /\ req[q].pc = "insert_transaction"
    /\ payment_transactions' =
          Append(payment_transactions,
                 [ user_id |-> req[q].user, session_id |-> req[q].session_id,
                   type |-> "reservation", plan_type |-> "",
                   payment_status |-> "initiated" ])
    /\ req' = [req EXCEPT ![q] = Return(req[q], "ok")]
    /\ UNCHANGED <<files, reservations, subscriptions, users, stripe, now, identity>>

(***************************************************************************)
(* PUT /reservations/{reservation_id}?status=...: update_reservation       *)
(***************************************************************************)
\* Mutant of find_reservation: the query leaves out user_id.
find_reservation_any_user(reservation_id, u) ==
    FirstIndex({i \in 1..Len(reservations) : reservations[i].id = reservation_id})

\* find_one({"id": reservation_id, "user_id": current_user.user_id})
find_reservation(reservation_id, u) ==
    FirstIndex({i \in 1..Len(reservations) :
                   reservations[i].id = reservation_id /\ reservations[i].user_id = u})

update_reservation(q, u, reservation_id, status) ==
    /\ Free(q)
    /\ LET r == [Idle EXCEPT !.op = "update", !.user = u,
                             !.reservation_id = reservation_id, !.status = status]
       IN  IF find_reservation(reservation_id, u) = 0
           THEN req' = [req EXCEPT ![q] = Return(r, "NotFound")]
           ELSE req' = [req EXCEPT ![q] = [r EXCEPT !.pc = "write"]]
    /\ UNCHANGED <<files, reservations, payment_transactions, subscriptions, users, stripe, now,
                   identity>>

\* update_one({"id": reservation_id}, {"$set": {"status": status}})
update_reservation_write(q) ==
    /\ req[q].op = "update" /\ req[q].pc = "write"
    /\ LET i == FirstIndex({j \in 1..Len(reservations) :
                                reservations[j].id = req[q].reservation_id})
       IN  reservations' =
              IF i = 0 THEN reservations
              ELSE [reservations EXCEPT ![i].status = req[q].status]
    /\ req' = [req EXCEPT ![q] = Return(req[q], "ok")]
    /\ UNCHANGED <<files, payment_transactions, subscriptions, users, stripe, now,
                   identity>>

(***************************************************************************)
(* POST /subscriptions/checkout: create_subscription_checkout              *)
(***************************************************************************)
\* Plan validation, then the provider opens a session.
create_subscription_checkout(q, u, plan_type) ==
    /\ Free(q)
    /\ LET r == [Idle EXCEPT !.op = "subscribe", !.user = u, !.plan_type = plan_type]
       IN  IF plan_type \notin SUBSCRIPTION_PACKAGES
           THEN /\ req' = [req EXCEPT ![q] = Return(r, "InvalidPlan")]
                /\ UNCHANGED stripe
           ELSE /\ SessionsClaimed < MaxSessions
                /\ stripe' = Append(stripe, "unpaid")
                /\ req' = [req EXCEPT ![q] = [r EXCEPT !.pc = "insert_transaction",
                                                       !.session_id = Len(stripe) + 1]]
    /\ UNCHANGED <<files, reservations, payment_transactions, subscriptions, users, now,
                   identity>>

\* db.payment_transactions.insert_one: metadata plan_type, no type.
create_subscription_transaction(q) ==
    /\ req[q].op = "subscribe" /\ req[q].pc = "insert_transaction"
    /\ payment_transactions' =
          Append(payment_transactions,
                 [ user_id |-> req[q].user, session_id |-> req[q].session_id,
                   type |-> "", plan_type |-> req[q].plan_type,
                   payment_status |-> "initiated" ])
    /\ req' = [req EXCEPT ![q].pc = "insert_subscription"]
    /\ UNCHANGED <<files, reservations, subscriptions, users, stripe, now, identity>>

\* db.subscriptions.insert_one: initiated, no start_date, no end_date (-1: None).
create_subscription_insert(q) ==
    /\ req[q].op = "subscribe" /\ req[q].pc = "insert_subscription"
    /\ subscriptions' =
          Append(subscriptions,
                 [ user_id |-> req[q].user, plan_type |-> req[q].plan_type,
                   stripe_session_id |-> req[q].session_id,
                   payment_status |-> "initiated",
                   start_date |-> -1, end_date |-> -1 ])
    /\ req' = [req EXCEPT ![q] = Return(req[q], "ok")]
    /\ UNCHANGED <<files, reservations, payment_transactions, users, stripe, now, identity>>

(***************************************************************************)
(* The writes of a reconciliation.                                         *)
(***************************************************************************)
\* payment_transactions.update_one({"session_id"}, {"$set": {"payment_status": "paid"}})
mark_transaction_paid(session_id) ==
    LET i == FirstIndex({j \in 1..Len(payment_transactions) :
                            payment_transactions[j].session_id = session_id})
    IN  IF i = 0 THEN payment_transactions
        ELSE [payment_transactions EXCEPT ![i].payment_status = "paid"]

\* Mutant of confirm_reservation: the update has no filter on the session, so
\* every reservation is set to confirmed.
confirm_reservation_every(session_id) ==
    [i \in 1..Len(reservations) |-> [reservations[i] EXCEPT !.status = "confirmed"]]

\* reservations.update_one({"stripe_session_id"}, {"$set": {"status": "confirmed"}})
confirm_reservation(session_id) ==
    LET i == FirstIndex({j \in 1..Len(reservations) :
                            reservations[j].stripe_session_id = session_id})
    IN  IF i = 0 THEN reservations
        ELSE [reservations EXCEPT ![i].status = "confirmed"]

\* subscriptions.update_one({"stripe_session_id"}, {"$set": {payment_status: paid,
\* start_date: now, end_date: now + duration_days}})
activate_subscription(session_id, plan_type) ==
    LET i == FirstIndex({j \in 1..Len(subscriptions) :
                            subscriptions[j].stripe_session_id = session_id})
    IN  IF i = 0 THEN subscriptions
        ELSE [subscriptions EXCEPT ![i].payment_status = "paid",
                                   ![i].start_date = now,
                                   ![i].end_date = now + plan_config(plan_type)]

\* users.update_one({"user_id"}, {"$set": {"subscription_plan": plan_type}})
set_subscription_plan(user_id, plan_type) ==
    IF user_id \in DOMAIN users
    THEN [users EXCEPT ![user_id] = plan_type]
    ELSE users

\* transaction['metadata'].get('plan_type', 'monthly')
metadata_plan_type(t) == IF t.plan_type = "" THEN "monthly" ELSE t.plan_type

\* transaction['metadata'].get('type', 'subscription')
metadata_type(t) == IF t.type = "" THEN "subscription" ELSE t.type

(***************************************************************************)
(* GET /reservations/status/{session_id}: get_reservation_status           *)
(***************************************************************************)
\* find_one({"session_id"}): 404 without a transaction, "paid" at once when paid.
get_reservation_status(q, u, session_id) ==
    /\ Free(q)
    /\ LET r == [Idle EXCEPT !.op = "rpoll", !.user = u, !.session_id = session_id,
                             !.paid_at_start = TxnPaid(session_id)]
           i == TxnOf(session_id)
       IN  IF i = 0
           THEN req' = [req EXCEPT ![q] = Return(r, "NotFound")]
           ELSE IF payment_transactions[i].payment_status = "paid"
           THEN req' = [req EXCEPT ![q] = Return(r, "paid")]
           ELSE req' = [req EXCEPT ![q] =
                           [r EXCEPT !.pc = "provider",
                                     !.txn_status = payment_transactions[i].payment_status]]
    /\ UNCHANGED <<files, reservations, payment_transactions, subscriptions, users, stripe, now,
                   identity>>

\* get_checkout_status, then the test on the provider's answer and the local copy.
get_reservation_status_provider(q) ==
    /\ req[q].op = "rpoll" /\ req[q].pc = "provider"
    /\ IF stripe[req[q].session_id] = "paid" /\ req[q].txn_status # "paid"
       THEN req' = [req EXCEPT ![q].pc = "update_transaction"]
       ELSE req' = [req EXCEPT ![q] = Return(req[q], stripe[req[q].session_id])]
    /\ UNCHANGED <<files, reservations, payment_transactions, subscriptions, users, stripe, now,
                   identity>>

get_reservation_status_transaction(q) ==
    /\ req[q].op = "rpoll" /\ req[q].pc = "update_transaction"
    /\ payment_transactions' = mark_transaction_paid(req[q].session_id)
    /\ req' = [req EXCEPT ![q].pc = "update_reservation"]
    /\ UNCHANGED <<files, reservations, subscriptions, users, stripe, now, identity>>

get_reservation_status_confirm(q) ==
    /\ req[q].op = "rpoll" /\ req[q].pc = "update_reservation"
    /\ reservations' = confirm_reservation(req[q].session_id)
    /\ req' = [req EXCEPT ![q] = Return(req[q], "paid")]
    /\ UNCHANGED <<files, payment_transactions, subscriptions, users, stripe, now,
                   identity>>

(***************************************************************************)
(* GET /subscriptions/status/{session_id}: get_subscription_status         *)
(***************************************************************************)
get_subscription_status(q, u, session_id) ==
    /\ Free(q)
    /\ LET r == [Idle EXCEPT !.op = "spoll", !.user = u, !.session_id = session_id,
                             !.paid_at_start = TxnPaid(session_id)]
           i == TxnOf(session_id)
       IN  IF i = 0
           THEN req' = [req EXCEPT ![q] = Return(r, "NotFound")]
           ELSE IF payment_transactions[i].payment_status = "paid"
           THEN req' = [req EXCEPT ![q] = Return(r, "paid")]
           ELSE req' = [req EXCEPT ![q] =
                           [r EXCEPT !.pc = "provider",
                                     !.txn_status = payment_transactions[i].payment_status,
                                     !.plan_type = metadata_plan_type(payment_transactions[i])]]
    /\ UNCHANGED <<files, reservations, payment_transactions, subscriptions, users, stripe, now,
                   identity>>

get_subscription_status_provider(q) ==
    /\ req[q].op = "spoll" /\ req[q].pc = "provider"
    /\ IF stripe[req[q].session_id] = "paid" /\ req[q].txn_status # "paid"
       THEN req' = [req EXCEPT ![q].pc = "update_transaction"]
       ELSE req' = [req EXCEPT ![q] = Return(req[q], stripe[req[q].session_id])]
    /\ UNCHANGED <<files, reservations, payment_transactions, subscriptions, users, stripe, now,
                   identity>>

get_subscription_status_transaction(q) ==
    /\ req[q].op = "spoll" /\ req[q].pc = "update_transaction"
    /\ payment_transactions' = mark_transaction_paid(req[q].session_id)
    /\ req' = [req EXCEPT ![q].pc = "update_subscription"]
    /\ UNCHANGED <<files, reservations, subscriptions, users, stripe, now, identity>>

get_subscription_status_activate(q) ==
    /\ req[q].op = "spoll" /\ req[q].pc = "update_subscription"
    /\ subscriptions' = activate_subscription(req[q].session_id, req[q].plan_type)
    /\ req' = [req EXCEPT ![q].pc = "update_user"]
    /\ UNCHANGED <<files, reservations, payment_transactions, users, stripe, now, identity>>

\* The plan goes to current_user, the caller of the poll.
get_subscription_status_user(q) ==
    /\ req[q].op = "spoll" /\ req[q].pc = "update_user"
    /\ users' = set_subscription_plan(req[q].user, req[q].plan_type)
    /\ req' = [req EXCEPT ![q] = Return(req[q], "paid")]
    /\ UNCHANGED <<files, reservations, payment_transactions, subscriptions, stripe, now,
                   identity>>

(***************************************************************************)
(* POST /webhook/stripe: stripe_webhook                                    *)
(***************************************************************************)
\* handle_webhook (a bad signature raises: 400), then for a completed checkout
\* the transaction is marked paid.
stripe_webhook(q, signed, event_type, session_id) ==
    /\ Free(q)
    /\ LET r == [Idle EXCEPT !.op = "webhook", !.session_id = session_id,
                             !.paid_at_start = TxnPaid(session_id)]
       IN  IF ~signed
           THEN /\ req' = [req EXCEPT ![q] = Return(r, "BadRequest")]
                /\ UNCHANGED payment_transactions
           ELSE IF event_type # "checkout.session.completed"
           THEN /\ req' = [req EXCEPT ![q] = Return(r, "success")]
                /\ UNCHANGED payment_transactions
           ELSE /\ payment_transactions' = mark_transaction_paid(session_id)
                /\ req' = [req EXCEPT ![q] = [r EXCEPT !.pc = "find_transaction"]]
    /\ UNCHANGED <<files, reservations, subscriptions, users, stripe, now, identity>>

\* find_one({"session_id"}): nothing more without a transaction.
stripe_webhook_find(q) ==
    /\ req[q].op = "webhook" /\ req[q].pc = "find_transaction"
    /\ LET i == TxnOf(req[q].session_id)
       IN  IF i = 0
           THEN req' = [req EXCEPT ![q] = Return(req[q], "success")]
           ELSE req' = [req EXCEPT ![q] =
                           [req[q] EXCEPT
                               !.pc = IF metadata_type(payment_transactions[i]) = "reservation"
                                      THEN "update_reservation"
                                      ELSE "update_subscription",
                               !.txn_type = metadata_type(payment_transactions[i]),
                               !.txn_user = payment_transactions[i].user_id,
                               !.plan_type = metadata_plan_type(payment_transactions[i])]]
    /\ UNCHANGED <<files, reservations, payment_transactions, subscriptions, users, stripe, now,
                   identity>>

stripe_webhook_confirm(q) ==
    /\ req[q].op = "webhook" /\ req[q].pc = "update_reservation"
    /\ reservations' = confirm_reservation(req[q].session_id)
    /\ req' = [req EXCEPT ![q] = Return(req[q], "success")]
    /\ UNCHANGED <<files, payment_transactions, subscriptions, users, stripe, now,
                   identity>>

stripe_webhook_activate(q) ==
    /\ req[q].op = "webhook" /\ req[q].pc = "update_subscription"
    /\ subscriptions' = activate_subscription(req[q].session_id, req[q].plan_type)
    /\ req' = [req EXCEPT ![q].pc = "update_user"]
    /\ UNCHANGED <<files, reservations, payment_transactions, users, stripe, now, identity>>

\* The plan goes to transaction['user_id'].
stripe_webhook_user(q) ==
    /\ req[q].op = "webhook" /\ req[q].pc = "update_user"
    /\ users' = set_subscription_plan(req[q].txn_user, req[q].plan_type)
    /\ req' = [req EXCEPT ![q] = Return(req[q], "success")]
    /\ UNCHANGED <<files, reservations, payment_transactions, subscriptions, stripe, now,
                   identity>>

(***************************************************************************)
(* POST /auth/register: register                                           *)
(***************************************************************************)
\* db.users.find_one({"email": email}) on the documents of register.
existing_user(email) ==
    FirstIndex({i \in 1..Len(registered) : registered[i].email = email})

\* register requests admitted so far: those that inserted and those about to.
RegistrationsClaimed ==
    Len(registered)
        + Cardinality({q \in ReqIds : req[q].op = "register" /\ req[q].pc = "insert"})

\* The lookup by email: 400 when a document has it.
register(q, email) ==
    /\ Free(q)
    /\ LET r == [Idle EXCEPT !.op = "register", !.email = email]
       IN  IF existing_user(email) # 0
           THEN req' = [req EXCEPT ![q] = Return(r, "BadRequest")]
           ELSE /\ RegistrationsClaimed < MaxRegistered
                /\ req' = [req EXCEPT ![q] = [r EXCEPT !.pc = "insert"]]
    /\ UNCHANGED <<files, reservations, payment_transactions, subscriptions, users,
                   stripe, now, identity>>

\* db.users.insert_one: User(email, is_verified=False).
register_insert(q) ==
    /\ req[q].op = "register" /\ req[q].pc = "insert"
    /\ registered' = Append(registered, [email |-> req[q].email, is_verified |-> FALSE])
    /\ req' = [req EXCEPT ![q].pc = "send"]
    /\ UNCHANGED <<files, reservations, payment_transactions, subscriptions, users,
                   stripe, now, mail, logins>>

\* Mutant of register_answer: a message that was not sent fails the request.
register_answer_strict(email_sent) ==
    IF email_sent THEN "ok" ELSE "UpstreamUnavailable"

\* if not email_sent: logger.error(...); the answer is the same either way.
register_answer(email_sent) == "ok"

\* send_verification_email: aiosmtplib.send delivers and send_email returns
\* True, or raises and send_email returns False; then the answer.
register_send(q) ==
    /\ req[q].op = "register" /\ req[q].pc = "send"
    /\ \E email_sent \in BOOLEAN :
          /\ mail' = IF email_sent THEN Append(mail, req[q].email) ELSE mail
          /\ req' = [req EXCEPT ![q] = Return(req[q], register_answer(email_sent))]
    /\ UNCHANGED <<files, reservations, payment_transactions, subscriptions, users,
                   stripe, now, registered, logins>>

(***************************************************************************)
(* Sessions: login, get_me, logout (behind get_current_user), block_user,  *)
(* unblock_user, reset_password                                            *)
(***************************************************************************)
\* bcrypt: the hash stands for the password it was made from; two hashes of
\* one password differ by their salt, which the model leaves out.
NoHash == [bcrypt |-> ""]
hash_password(password) == [bcrypt |-> password]
\* Mutant of verify_password: any password verifies.
verify_password_any(plain_password, hashed_password) == TRUE

verify_password(plain_password, hashed_password) ==
    hashed_password = hash_password(plain_password)

\* create_access_token: sub, and an exp one unit of time from now.
create_access_token(user_id) == Bearer(user_id, now + 1, TRUE)

\* decode_access_token: the sub, or None ("") for a token that does not
\* verify or is expired.
decode_access_token(authorization) ==
    IF authorization.signed /\ authorization.exp > now THEN authorization.sub ELSE ""

\* db.users.find_one({"email": email}): the account, "" for none.
find_user(email) ==
    IF \E u \in Accounts : email_of(u) = email
    THEN CHOOSE u \in Accounts : email_of(u) = email
    ELSE ""

\* db.user_sessions.find_one({"session_token": token}): the first, 0 for none.
find_session(sessions, token) ==
    FirstIndex({i \in 1..Len(sessions) : sessions[i].session_token = token})

\* delete_one({"session_token": token}): the first document with the token goes.
delete_one(sessions, token) ==
    LET i == find_session(sessions, token)
    IN  IF i = 0 THEN sessions
        ELSE SubSeq(sessions, 1, i - 1) \o SubSeq(sessions, i + 1, Len(sessions))

\* delete_many({"user_id": user_id})
delete_many(sessions, user_id) == SelectSeq(sessions, LAMBDA d : d.user_id # user_id)

\* delete_many({"user_id": {"$exists": True}}): every document has the field.
delete_many_with_user_id(sessions) == SelectSeq(sessions, LAMBDA d : FALSE)

\* login requests admitted so far: those that inserted and those about to.
LoginsClaimed ==
    Cardinality(tokens)
        + Cardinality({q \in ReqIds : req[q].op = "login" /\ req[q].pc = "insert_session"})

\* POST /auth/login: the account is looked up by email, then the checks in the
\* handler's order, then the token and the session's expires_at.  An account
\* is admitted once per unit of time, so every login returns a token of its own.
login(q, email, password) ==
    /\ Free(q)
    /\ LET u == find_user(email)
           r == [Idle EXCEPT !.op = "login", !.email = email]
       IN  IF u = ""
           THEN req' = [req EXCEPT ![q] = Return(r, "Unauthorized")]
           ELSE IF is_blocked[u]
           THEN req' = [req EXCEPT ![q] = Return(r, "Forbidden")]
           ELSE IF oauth_provider(u) # ""
           THEN req' = [req EXCEPT ![q] = Return(r, "BadRequest")]
           ELSE IF password_hash[u] = NoHash \/ ~verify_password(password, password_hash[u])
           THEN req' = [req EXCEPT ![q] = Return(r, "Unauthorized")]
           ELSE IF ~is_verified(u)
           THEN req' = [req EXCEPT ![q] = Return(r, "Forbidden")]
           ELSE IF role(u) # "admin" /\ users[u] = "basic"
           THEN req' = [req EXCEPT ![q] = Return(r, "Forbidden")]
           ELSE /\ LoginsClaimed < MaxLogins
                /\ create_access_token(u) \notin tokens
                /\ req' = [req EXCEPT ![q] =
                             [r EXCEPT !.pc = "insert_session", !.user = u,
                                       !.authorization = create_access_token(u)]]
    /\ UNCHANGED <<files, reservations, payment_transactions, subscriptions, users,
                   stripe, now, identity>>

\* db.user_sessions.insert_one, then the answer with the token.
login_insert(q) ==
    /\ req[q].op = "login" /\ req[q].pc = "insert_session"
    /\ user_sessions' =
          Append(user_sessions,
                 [ user_id |-> req[q].user, session_token |-> req[q].authorization,
                   expires_at |-> req[q].authorization.exp ])
    /\ tokens' = tokens \cup {req[q].authorization}
    /\ req' = [req EXCEPT ![q] = Return(req[q], "ok")]
    /\ UNCHANGED <<files, reservations, payment_transactions, subscriptions, users,
                   stripe, now, registered, mail, is_blocked, password_hash>>

\* The session lookup get_me and get_current_user share: no session is 401,
\* an expired one is deleted before the 401.
with_session(q, r) ==
    LET i == find_session(user_sessions, r.authorization)
    IN  IF i = 0
        THEN req' = [req EXCEPT ![q] = Return(r, "Unauthorized")]
        ELSE IF user_sessions[i].expires_at < now
        THEN req' = [req EXCEPT ![q] = [r EXCEPT !.pc = "expire"]]
        ELSE req' = [req EXCEPT ![q] = [r EXCEPT !.pc = "find_user",
                                                 !.user = user_sessions[i].user_id]]

\* GET /auth/me (the route registered first): the token of the Authorization
\* header is looked up in db.user_sessions; it is not decoded.
get_me(q, authorization) ==
    /\ Free(q)
    /\ LET r == [Idle EXCEPT !.op = "me", !.authorization = authorization]
       IN  IF authorization.scheme # "Bearer"
           THEN req' = [req EXCEPT ![q] = Return(r, "Unauthorized")]
           ELSE with_session(q, r)
    /\ UNCHANGED <<files, reservations, payment_transactions, subscriptions, users,
                   stripe, now, identity>>

\* delete_one of the expired session, then 401.
delete_expired_session(q) ==
    /\ req[q].op \in {"me", "logout"} /\ req[q].pc = "expire"
    /\ user_sessions' = delete_one(user_sessions, req[q].authorization)
    /\ req' = [req EXCEPT ![q] = Return(req[q], "Unauthorized")]
    /\ UNCHANGED <<files, reservations, payment_transactions, subscriptions, users,
                   stripe, now, registered, mail, is_blocked, password_hash, tokens>>

\* get_me: db.users.find_one({"user_id": session["user_id"]}), then the user.
get_me_user(q) ==
    /\ req[q].op = "me" /\ req[q].pc = "find_user"
    /\ req' = [req EXCEPT ![q] =
                 Return(req[q], IF req[q].user \in DOMAIN users
                                THEN "served" ELSE "Unauthorized")]
    /\ UNCHANGED <<files, reservations, payment_transactions, subscriptions, users,
                   stripe, now, identity>>

\* POST /auth/logout behind get_current_user: the header, the token decoded,
\* the session looked up.  The user_id is the token's sub.
logout(q, authorization) ==
    /\ Free(q)
    /\ LET r == [Idle EXCEPT !.op = "logout", !.authorization = authorization]
       IN  IF authorization.scheme # "Bearer"
           THEN req' = [req EXCEPT ![q] = Return(r, "Unauthorized")]
           ELSE IF decode_access_token(authorization) = ""
           THEN req' = [req EXCEPT ![q] = Return(r, "Unauthorized")]
           ELSE with_session(q, r)
    /\ UNCHANGED <<files, reservations, payment_transactions, subscriptions, users,
                   stripe, now, identity>>

\* get_current_user: the user is looked up; a blocked one loses every session
\* and gets 403.
logout_user(q) ==
    /\ req[q].op = "logout" /\ req[q].pc = "find_user"
    /\ IF req[q].authorization.sub \notin DOMAIN users
       THEN /\ req' = [req EXCEPT ![q] = Return(req[q], "Unauthorized")]
            /\ UNCHANGED user_sessions
       ELSE IF is_blocked[req[q].authorization.sub]
       THEN /\ user_sessions' = delete_many(user_sessions, req[q].authorization.sub)
            /\ req' = [req EXCEPT ![q] = Return(req[q], "Forbidden")]
       ELSE /\ req' = [req EXCEPT ![q].pc = "delete_session"]
            /\ UNCHANGED user_sessions
    /\ UNCHANGED <<files, reservations, payment_transactions, subscriptions, users,
                   stripe, now, registered, mail, is_blocked, password_hash, tokens>>

\* logout: delete_one({"session_token": token}).
logout_delete(q) ==
    /\ req[q].op = "logout" /\ req[q].pc = "delete_session"
    /\ user_sessions' = delete_one(user_sessions, req[q].authorization)
    /\ req' = [req EXCEPT ![q] = Return(req[q], "ok")]
    /\ UNCHANGED <<files, reservations, payment_transactions, subscriptions, users,
                   stripe, now, registered, mail, is_blocked, password_hash, tokens>>

\* PUT /admin/users/{user_id}/block by the administrator: is_blocked is set.
block_user(q, admin, user_id) ==
    /\ Free(q)
    /\ role(admin) = "admin"
    /\ LET r == [Idle EXCEPT !.op = "block", !.user = user_id]
       IN  IF user_id = admin
           THEN /\ req' = [req EXCEPT ![q] = Return(r, "BadRequest")]
                /\ UNCHANGED is_blocked
           ELSE IF user_id \notin DOMAIN is_blocked
           THEN /\ req' = [req EXCEPT ![q] = Return(r, "NotFound")]
                /\ UNCHANGED is_blocked
           ELSE /\ is_blocked' = [is_blocked EXCEPT ![user_id] = TRUE]
                /\ req' = [req EXCEPT ![q] = [r EXCEPT !.pc = "delete_sessions"]]
    /\ UNCHANGED <<files, reservations, payment_transactions, subscriptions, users,
                   stripe, now, registered, mail, user_sessions, password_hash, tokens>>

\* block_user: delete_many({"user_id": user_id}).
block_user_sessions(q) ==
    /\ req[q].op = "block" /\ req[q].pc = "delete_sessions"
    /\ user_sessions' = delete_many(user_sessions, req[q].user)
    /\ req' = [req EXCEPT ![q] = Return(req[q], "ok")]
    /\ UNCHANGED <<files, reservations, payment_transactions, subscriptions, users,
                   stripe, now, registered, mail, is_blocked, password_hash, tokens>>

\* PUT /admin/users/{user_id}/unblock by the administrator.
unblock_user(q, admin, user_id) ==
    /\ Free(q)
    /\ role(admin) = "admin"
    /\ LET r == [Idle EXCEPT !.op = "unblock", !.user = user_id]
       IN  IF user_id \notin DOMAIN is_blocked
           THEN /\ req' = [req EXCEPT ![q] = Return(r, "NotFound")]
                /\ UNCHANGED is_blocked
           ELSE /\ is_blocked' = [is_blocked EXCEPT ![user_id] = FALSE]
                /\ req' = [req EXCEPT ![q] = Return(r, "ok")]
    /\ UNCHANGED <<files, reservations, payment_transactions, subscriptions, users,
                   stripe, now, registered, mail, user_sessions, password_hash, tokens>>

\* POST /auth/reset-password with a reset token for the email (valid: its
\* signature verifies and it is not older than an hour): the password_hash of
\* the account with the email is replaced.
reset_password(q, email, valid, new_password) ==
    /\ Free(q)
    /\ LET u == find_user(email)
           r == [Idle EXCEPT !.op = "reset", !.email = email]
       IN  IF ~valid
           THEN /\ req' = [req EXCEPT ![q] = Return(r, "BadRequest")]
                /\ UNCHANGED password_hash
           ELSE IF u = ""
           THEN /\ req' = [req EXCEPT ![q] = Return(r, "NotFound")]
                /\ UNCHANGED password_hash
           ELSE /\ password_hash' = [password_hash EXCEPT ![u] = hash_password(new_password)]
                /\ req' = [req EXCEPT ![q] = [r EXCEPT !.pc = "delete_sessions", !.user = u]]
    /\ UNCHANGED <<files, reservations, payment_transactions, subscriptions, users,
                   stripe, now, registered, mail, user_sessions, is_blocked, tokens>>

\* reset_password: delete_many({"user_id": {"$exists": True}}), then the answer.
reset_password_sessions(q) ==
    /\ req[q].op = "reset" /\ req[q].pc = "delete_sessions"
    /\ user_sessions' = delete_many_with_user_id(user_sessions)
    /\ req' = [req EXCEPT ![q] = Return(req[q], "ok")]
    /\ UNCHANGED <<files, reservations, payment_transactions, subscriptions, users,
                   stripe, now, registered, mail, is_blocked, password_hash, tokens>>

(***************************************************************************)
(* POST /upload: upload_file                                               *)
(***************************************************************************)
\* The file is written under a fresh uuid with the suffix of the client's name.
upload_file(q, u, suffix, content) ==
    /\ Free(q)
    /\ uuids < MaxUploads
    /\ uuids' = uuids + 1
    /\ uploads' = (FileName(uuids + 1, suffix) :> content) @@ uploads
    /\ req' = [req EXCEPT ![q] = Return([Idle EXCEPT !.op = "upload"], "ok")]
    /\ UNCHANGED <<chunked_uploads, arrivals, reservations, payment_transactions,
                   subscriptions, users, stripe, now, identity>>

(***************************************************************************)
(* Chunked upload: init_chunked_upload, upload_chunk,                      *)
(* complete_chunked_upload                                                 *)
(***************************************************************************)
\* upload_dir / f"{upload_id}_chunk_{chunk_index}"
chunk_path(upload_id, chunk_index) ==
    [kind |-> "chunk", id |-> upload_id, chunk |-> chunk_index, suffix |-> ""]

\* Mutant of unlink: nothing is removed.
unlink_nothing(dir, name) == dir

\* The directory without one file (unlink).
unlink(dir, name) == [n \in (DOMAIN dir) \ {name} |-> dir[n]]

\* Mutant of open_wb: an existing file keeps its content.
open_keeping(dir, name) == IF name \in DOMAIN dir THEN dir ELSE (name :> <<>>) @@ dir

\* aiofiles.open(name, 'wb'): the file is created, or truncated if it exists.
open_wb(dir, name) == (name :> <<>>) @@ dir

\* POST /upload/init: a session under a fresh uuid, nothing received.
init_chunked_upload(q, u, suffix, total_chunks) ==
    /\ Free(q)
    /\ uuids < MaxUploads
    /\ uuids' = uuids + 1
    /\ chunked_uploads' =
          ((uuids + 1) :> [ filename |-> FileName(uuids + 1, suffix),
                            total_chunks |-> total_chunks,
                            received_chunks |-> {},
                            user_id |-> u ]) @@ chunked_uploads
    /\ req' = [req EXCEPT ![q] = Return([Idle EXCEPT !.op = "init"], "ok")]
    /\ UNCHANGED <<uploads, arrivals, reservations, payment_transactions,
                   subscriptions, users, stripe, now, identity>>

\* upload_chunk requests admitted so far: those that wrote and those in flight.
ChunksClaimed ==
    Len(arrivals)
        + Cardinality({q \in ReqIds : req[q].op = "chunk" /\ req[q].pc = "write"})

\* Mutant of owned_by: every caller passes for the owner.
owned_by_anyone(upload_info, u) == TRUE

\* upload_info["user_id"] == current_user.id
owned_by(upload_info, u) == upload_info.user_id = u

\* POST /upload/chunk/{upload_id}/{chunk_index}: the session and its owner are
\* checked, then the chunk file is opened for writing (created or truncated).
upload_chunk(q, u, upload_id, chunk_index, content) ==
    /\ Free(q)
    /\ LET r == [Idle EXCEPT !.op = "chunk", !.user = u, !.upload_id = upload_id,
                             !.chunk_index = chunk_index, !.content = content]
       IN  IF upload_id \notin DOMAIN chunked_uploads
           THEN /\ req' = [req EXCEPT ![q] = Return(r, "SessionNotFound")]
                /\ UNCHANGED uploads
           ELSE IF ~owned_by(chunked_uploads[upload_id], u)
           THEN /\ req' = [req EXCEPT ![q] = Return(r, "Forbidden")]
                /\ UNCHANGED uploads
           ELSE /\ ChunksClaimed < MaxChunks
                /\ uploads' = open_wb(uploads, chunk_path(upload_id, chunk_index))
                /\ req' = [req EXCEPT ![q] = [r EXCEPT !.pc = "write"]]
    /\ UNCHANGED <<chunked_uploads, uuids, arrivals, reservations, payment_transactions,
                   subscriptions, users, stripe, now, identity>>

\* A write through a handle opened with 'wb', which stands at offset 0: the
\* content replaces the first bytes of what the file holds by then.
write_at_start(old, content) ==
    content \o SubSeq(old, Len(content) + 1, Len(old))

\* f.write(content): into the chunk file, if it is still in the directory.
upload_chunk_write(q) ==
    /\ req[q].op = "chunk" /\ req[q].pc = "write"
    /\ LET path == chunk_path(req[q].upload_id, req[q].chunk_index)
       IN  uploads' =
              IF path \in DOMAIN uploads
              THEN [uploads EXCEPT ![path] = write_at_start(@, req[q].content)]
              ELSE uploads
    /\ arrivals' = Append(arrivals, <<req[q].upload_id, req[q].chunk_index, req[q].content>>)
    /\ req' = [req EXCEPT ![q].pc = "record"]
    /\ UNCHANGED <<chunked_uploads, uuids, reservations, payment_transactions,
                   subscriptions, users, stripe, now, identity>>

\* Mutant of add: the set is replaced by the one index.
add_replacing(received_chunks, chunk_index) == {chunk_index}

\* set.add
add(received_chunks, chunk_index) == received_chunks \cup {chunk_index}

\* upload_info["received_chunks"].add(chunk_index), on the dict the handler
\* fetched when it arrived.
upload_chunk_record(q) ==
    /\ req[q].op = "chunk" /\ req[q].pc = "record"
    /\ chunked_uploads' =
          IF req[q].upload_id \in DOMAIN chunked_uploads
          THEN [chunked_uploads EXCEPT
                  ![req[q].upload_id].received_chunks = add(@, req[q].chunk_index)]
          ELSE chunked_uploads
    /\ req' = [req EXCEPT ![q] = Return(req[q], "ok")]
    /\ UNCHANGED <<uploads, uuids, arrivals, reservations, payment_transactions,
                   subscriptions, users, stripe, now, identity>>

\* Mutant of combine_order: the chunks are read from the highest index down.
combine_order_descending(total_chunks) ==
    [k \in 1..total_chunks |-> total_chunks - k]

\* for i in range(upload_info["total_chunks"])
combine_order(total_chunks) == [k \in 1..total_chunks |-> k - 1]

\* len(upload_info["received_chunks"]) == upload_info["total_chunks"]
all_received(upload_info) ==
    Cardinality(upload_info.received_chunks) = upload_info.total_chunks

\* f"Missing chunks: received {len(received_chunks)} of {total_chunks}"
missing_chunks_detail(received_chunks, total_chunks) ==
    [received |-> Cardinality(received_chunks), total |-> total_chunks]

\* POST /upload/complete/{upload_id}: the session is looked up, the number of
\* received chunks compared with total_chunks, then the final file is opened
\* for writing (created or truncated).  chunk_index counts the loop's rounds.
complete_chunked_upload(q, u, upload_id) ==
    /\ Free(q)
    /\ LET r == [Idle EXCEPT !.op = "complete", !.user = u, !.upload_id = upload_id]
       IN  IF upload_id \notin DOMAIN chunked_uploads
           THEN /\ req' = [req EXCEPT ![q] = Return(r, "SessionNotFound")]
                /\ UNCHANGED uploads
           ELSE LET upload_info == chunked_uploads[upload_id]
                IN  IF ~all_received(upload_info)
                    THEN /\ req' = [req EXCEPT ![q] =
                                 Return([r EXCEPT !.detail =
                                            missing_chunks_detail(
                                                upload_info.received_chunks,
                                                upload_info.total_chunks)],
                                        "IncompleteUpload")]
                         /\ UNCHANGED uploads
                    ELSE /\ uploads' = open_wb(uploads, upload_info.filename)
                         /\ req' = [req EXCEPT ![q] =
                                 [r EXCEPT !.pc = "read",
                                           !.filename = upload_info.filename,
                                           !.total_chunks = upload_info.total_chunks,
                                           !.chunk_index = 1]]
    /\ UNCHANGED <<chunked_uploads, uuids, arrivals, reservations, payment_transactions,
                   subscriptions, users, stripe, now, identity>>

\* The chunk the loop is at.
current_chunk(r) == chunk_path(r.upload_id, combine_order(r.total_chunks)[r.chunk_index])

\* aiofiles.open(chunk_path, 'rb') and read: a missing chunk file raises, and
\* the handler answers 500 with what it has written left in the final file.
complete_chunked_upload_read(q) ==
    /\ req[q].op = "complete" /\ req[q].pc = "read"
    /\ IF current_chunk(req[q]) \notin DOMAIN uploads
       THEN req' = [req EXCEPT ![q] = Return(req[q], "CombineError")]
       ELSE req' = [req EXCEPT ![q].pc = "write",
                               ![q].content = uploads[current_chunk(req[q])]]
    /\ UNCHANGED <<files, reservations, payment_transactions, subscriptions, users,
                   stripe, now, identity>>

\* A write through a handle that stands at offset: the content replaces what
\* the file holds from there on; a file another handle has truncated below
\* the offset is filled with zero bytes up to it.
write_at(old, offset, content) ==
    LET filled == old \o [k \in 1..(offset - Len(old)) |-> 0]
    IN  SubSeq(filled, 1, offset) \o content
            \o SubSeq(filled, offset + Len(content) + 1, Len(filled))

\* final_file.write(content) at the handle's offset, then chunk_path.unlink()
\* (which raises when the chunk file is gone), then the next round or the end
\* of the loop.
complete_chunked_upload_write(q) ==
    /\ req[q].op = "complete" /\ req[q].pc = "write"
    /\ LET written == [uploads EXCEPT
                         ![req[q].filename] = write_at(@, req[q].offset, req[q].content)]
       IN  IF current_chunk(req[q]) \notin DOMAIN written
           THEN /\ uploads' = written
                /\ req' = [req EXCEPT ![q] = Return(req[q], "CombineError")]
           ELSE /\ uploads' = unlink(written, current_chunk(req[q]))
                /\ req' = [req EXCEPT
                             ![q].content = <<>>,
                             ![q].offset = @ + Len(req[q].content),
                             ![q].pc = IF req[q].chunk_index < req[q].total_chunks
                                       THEN "read" ELSE "finish",
                             ![q].chunk_index =
                                 IF req[q].chunk_index < req[q].total_chunks
                                 THEN req[q].chunk_index + 1 ELSE req[q].chunk_index]
    /\ UNCHANGED <<chunked_uploads, uuids, arrivals, reservations, payment_transactions,
                   subscriptions, users, stripe, now, identity>>

\* del chunked_uploads[upload_id] (a KeyError when it is gone: 500), then the
\* answer.
complete_chunked_upload_finish(q) ==
    /\ req[q].op = "complete" /\ req[q].pc = "finish"
    /\ IF req[q].upload_id \notin DOMAIN chunked_uploads
       THEN /\ req' = [req EXCEPT ![q] = Return(req[q], "CombineError")]
            /\ UNCHANGED chunked_uploads
       ELSE /\ chunked_uploads' = unlink(chunked_uploads, req[q].upload_id)
            /\ req' = [req EXCEPT ![q] = Return(req[q], "ok")]
    /\ UNCHANGED <<uploads, uuids, arrivals, reservations, payment_transactions,
                   subscriptions, users, stripe, now, identity>>

(***************************************************************************)
(* GET /stream/{filename}: stream_video                                    *)
(***************************************************************************)
\* filename.endswith(('.mp4', '.webm', '.mov', '.avi'))
is_video(filename) == filename.suffix \in {".mp4", ".webm", ".mov", ".avi"}

\* jwt.decode: "invalid" for a signature that does not verify, "expired" for an
\* exp that has passed, else the payload's sub.
jwt_decode(authorization) ==
    IF ~authorization.signed THEN "invalid"
    ELSE IF authorization.exp <= now THEN "expired"
    ELSE "payload"

\* The checks before the user lookup, in the handler's order: the file, its
\* suffix, the Authorization header, the token.
stream_video(q, filename, authorization, range_header) ==
    /\ Free(q)
    /\ LET r == [Idle EXCEPT !.op = "stream", !.filename = filename,
                             !.authorization = authorization,
                             !.range = range_header]
       IN  IF filename \notin DOMAIN uploads
           THEN req' = [req EXCEPT ![q] = Return(r, "NotFound")]
           ELSE IF ~is_video(filename)
           THEN req' = [req EXCEPT ![q] = Return(r, "BadRequest")]
           ELSE IF authorization.scheme # "Bearer"
           THEN req' = [req EXCEPT ![q] = Return(r, "Unauthorized")]
           ELSE IF jwt_decode(authorization) # "payload"
           THEN req' = [req EXCEPT ![q] = Return(r, "Unauthorized")]
           ELSE IF authorization.sub = ""
           THEN req' = [req EXCEPT ![q] = Return(r, "Unauthorized")]
           ELSE req' = [req EXCEPT ![q] = [r EXCEPT !.pc = "find_user",
                                                    !.user = authorization.sub]]
    /\ UNCHANGED <<files, reservations, payment_transactions, subscriptions, users,
                   stripe, now, identity>>

\* range_header.replace("bytes=", "")
replace(text) == SelectSeq(text, LAMBDA x : x # sym("bytes="))

\* str.split("-"): the parts between the dashes, one more than there are dashes.
split(text) ==
    LET dashes == {k \in 1..Len(text) : text[k] = sym("-")}
        edge(k) == IF k = 0 THEN 0
                   ELSE IF k = Cardinality(dashes) + 1 THEN Len(text) + 1
                   ELSE CHOOSE p \in dashes : Cardinality({d \in dashes : d <= p}) = k
    IN  [k \in 1..(Cardinality(dashes) + 1) |-> SubSeq(text, edge(k - 1) + 1, edge(k) - 1)]

\* int(part) succeeds on a numeral and raises ValueError on anything else.
is_int(part) == Len(part) = 1 /\ part[1].t = "num"
int(part) == part[1].n

\* Mutant of iterfile: the file is read from its first byte.
iterfile_unsought(blob, start, content_length) ==
    IF content_length <= 0 THEN <<>>
    ELSE SubSeq(blob, 1, Min(content_length, Len(blob)))

\* f.seek(start), then reads until content_length bytes are read or the file
\* ends.
iterfile(blob, start, content_length) ==
    IF content_length <= 0 \/ start >= Len(blob) THEN <<>>
    ELSE SubSeq(blob, start + 1, Min(start + content_length, Len(blob)))

\* The response to a request with a Range header: start and end are parsed
\* (an exception there is not caught: 500), the span is cut to the chunk size
\* and to the end of the file.
partial_content(blob, text) ==
    LET file_size == Len(blob)
        range_match == split(replace(text))
    IN  IF range_match[1] # <<>> /\ ~is_int(range_match[1]) THEN NoResponse
        ELSE IF Len(range_match) < 2 THEN NoResponse
        ELSE IF range_match[2] # <<>> /\ ~is_int(range_match[2]) THEN NoResponse
        ELSE LET start == IF range_match[1] # <<>> THEN int(range_match[1]) ELSE 0
                 requested == IF range_match[2] # <<>> THEN int(range_match[2])
                              ELSE file_size - 1
                 chunk_size == Min(MaxChunkSize, requested - start + 1)
                 end == Min(start + chunk_size - 1, file_size - 1)
                 content_length == end - start + 1
             IN  [status |-> 206, start |-> start, end |-> end, file_size |-> file_size,
                  content_length |-> content_length,
                  body |-> iterfile(blob, start, content_length)]

\* The response without a Range header: the whole file.
full_content(blob) ==
    [NoResponse EXCEPT !.status = 200, !.content_length = Len(blob), !.body = blob]

\* if range_header: ... else: ...
respond(blob, range_header) ==
    IF range_header.present /\ range_header.text # <<>>
    THEN partial_content(blob, range_header.text)
    ELSE full_content(blob)

\* db.users.find_one, then the test on role and subscription_plan, then the
\* response.
stream_video_user(q) ==
    /\ req[q].op = "stream" /\ req[q].pc = "find_user"
    /\ IF req[q].user \notin DOMAIN users
       THEN req' = [req EXCEPT ![q] = Return(req[q], "Unauthorized")]
       ELSE IF role(req[q].user) # "admin" /\ users[req[q].user] = "basic"
       THEN req' = [req EXCEPT ![q] = Return(req[q], "Forbidden")]
       ELSE LET response == respond(uploads[req[q].filename], req[q].range)
            IN  req' = [req EXCEPT ![q] =
                          IF response = NoResponse
                          THEN Return(req[q], "ServerError")
                          ELSE Return([req[q] EXCEPT !.response = response], "served")]
    /\ UNCHANGED <<files, reservations, payment_transactions, subscriptions, users,
                   stripe, now, identity>>

(***************************************************************************)
(* What each reconcile path, run alone to its return from the current      *)
(* state, leaves in the database.                                          *)
(***************************************************************************)
database == [ payment_transactions |-> payment_transactions,
              reservations |-> reservations,
              subscriptions |-> subscriptions,
              users |-> users ]

\* A signed checkout.session.completed event for the session.
stripe_webhook_outcome(session_id) ==
    IF TxnOf(session_id) = 0 THEN database
    ELSE LET t == payment_transactions[TxnOf(session_id)]
         IN  IF metadata_type(t) = "reservation"
             THEN [ database EXCEPT
                      !.payment_transactions = mark_transaction_paid(session_id),
                      !.reservations = confirm_reservation(session_id) ]
             ELSE [ database EXCEPT
                      !.payment_transactions = mark_transaction_paid(session_id),
                      !.subscriptions =
                          activate_subscription(session_id, metadata_plan_type(t)),
                      !.users = set_subscription_plan(t.user_id, metadata_plan_type(t)) ]

\* GET /reservations/status/{session_id}
get_reservation_status_outcome(u, session_id) ==
    IF TxnOf(session_id) = 0 THEN database
    ELSE LET t == payment_transactions[TxnOf(session_id)]
         IN  IF t.payment_status # "paid" /\ stripe[session_id] = "paid"
             THEN [ database EXCEPT
                      !.payment_transactions = mark_transaction_paid(session_id),
                      !.reservations = confirm_reservation(session_id) ]
             ELSE database

\* GET /subscriptions/status/{session_id} by user u
get_subscription_status_outcome(u, session_id) ==
    IF TxnOf(session_id) = 0 THEN database
    ELSE LET t == payment_transactions[TxnOf(session_id)]
         IN  IF t.payment_status # "paid" /\ stripe[session_id] = "paid"
             THEN [ database EXCEPT
                      !.payment_transactions = mark_transaction_paid(session_id),
                      !.subscriptions =
                          activate_subscription(session_id, metadata_plan_type(t)),
                      !.users = set_subscription_plan(u, metadata_plan_type(t)) ]
             ELSE database

(***************************************************************************)
(* The environment: the customer pays a checkout session at the provider,  *)
(* and time passes.                                                        *)
(***************************************************************************)
Pay(session_id) ==
    /\ session_id \in 1..Len(stripe)
    /\ stripe[session_id] = "unpaid"
    /\ stripe' = [stripe EXCEPT ![session_id] = "paid"]
    /\ UNCHANGED <<files, reservations, payment_transactions, subscriptions, users, now, req,
                   identity>>

Tick ==
    /\ now < MaxNow
    /\ now' = now + 1
    /\ UNCHANGED <<files, reservations, payment_transactions, subscriptions, users, stripe, req,
                   identity>>

(***************************************************************************)
(* Specifications.                                                         *)
(***************************************************************************)
Init ==
    /\ reservations = <<>>
    /\ payment_transactions = <<>>
    /\ subscriptions = <<>>
    /\ users = [u \in Accounts |-> "basic"]
    /\ stripe = <<>>
    /\ now = 0
    /\ req = [q \in ReqIds |-> Idle]
    /\ uploads = <<>>
    /\ chunked_uploads = <<>>
    /\ uuids = 0
    /\ arrivals = <<>>
    /\ registered = <<>>
    /\ mail = <<>>
    /\ user_sessions = <<>>
    /\ is_blocked = [u \in Accounts |-> FALSE]
    /\ password_hash =
          [u \in Accounts |-> IF oauth_provider(u) # "" THEN NoHash
                              ELSE hash_password("secret")]
    /\ tokens = {}

SessionIds == 1..MaxSessions

\* Ledgers for the availability query: the reservations of one customer, each
\* a date, a time slot (the first or the last of the catalog, or a label that
\* is no catalog slot), a cabin and a status.
Entry(d, s, c, status) ==
    [reservation_date |-> d, time_slot |-> s, cabin_number |-> c, status |-> status]

Ledger(entries) ==
    [ i \in 1..Len(entries) |->
        [ id |-> i, user_id |-> "u1",
          reservation_date |-> entries[i].reservation_date,
          time_slot |-> entries[i].time_slot,
          cabin_number |-> entries[i].cabin_number,
          status |-> entries[i].status,
          stripe_session_id |-> i ] ]

EntryInputs ==
    { Entry("2025-03-01", s, c, status) :
        s \in {all_slots[1], all_slots[Len(all_slots)], SlotLabel(10, 0, 11, 0)},
        c \in 1..3, status \in {"pending", "cancelled"} }

\* One slot of the day booked in every cabin.
FullSlot ==
    [c \in 1..3 |-> Entry("2025-03-01", all_slots[1], c, "pending")]

\* A hundred reservations of one cabin for one-minute windows after closing,
\* then one for the first slot of the catalog.
Crowded ==
    [k \in 1..100 |->
        Entry("2025-03-01",
              SlotLabel(18 + ((k - 1) \div 20), (k - 1) % 20, 18 + ((k - 1) \div 20), k % 20),
              1, "pending")]
      \o <<Entry("2025-03-01", all_slots[1], 1, "pending")>>

LedgerInputs ==
    {Ledger(entries) : entries \in
        {<<>>} \cup {<<e>> : e \in EntryInputs}
               \cup {<<e1, e2>> : e1, e2 \in EntryInputs}
               \cup {FullSlot, Crowded}}

DateInputs == {"2025-03-01", "2025-03-02"}

InitSlots ==
    /\ reservations \in LedgerInputs
    /\ payment_transactions = <<>>
    /\ subscriptions = <<>>
    /\ users = [u \in Accounts |-> "basic"]
    /\ stripe = <<>>
    /\ now = 0
    /\ req = [q \in ReqIds |-> Idle]
    /\ uploads = <<>>
    /\ chunked_uploads = <<>>
    /\ uuids = 0
    /\ arrivals = <<>>
    /\ registered = <<>>
    /\ mail = <<>>
    /\ user_sessions = <<>>
    /\ is_blocked = [u \in Accounts |-> FALSE]
    /\ password_hash =
          [u \in Accounts |-> IF oauth_provider(u) # "" THEN NoHash
                              ELSE hash_password("secret")]
    /\ tokens = {}

ArriveSlots(q) ==
    \E date \in DateInputs, cabin_number \in 0..3 :
        get_available_slots(q, date, cabin_number)

ArriveRegister(q) == \E email \in EmailInputs : register(q, email)

ResumeRegister(q) ==
    \/ register_insert(q)
    \/ register_send(q)

\* The webhook events the provider sends: completed for a paid session, expired
\* for an unpaid one; anyone can post an unsigned body.
Delivers(signed, event_type, session_id) ==
    /\ session_id \in 1..Len(stripe)
    /\ signed =>
          IF event_type = "checkout.session.completed"
          THEN stripe[session_id] = "paid"
          ELSE stripe[session_id] = "unpaid"

\* A request arrives in slot q: its caller from U, its body from the given sets.
ArriveCreate(q, U, B) ==
    \E u \in U, b \in B : create_reservation_checkout(q, u, b)

ArriveUpdate(q, U, statuses) ==
    \E u \in U, i \in 1..MaxSessions, st \in statuses : update_reservation(q, u, i, st)

ArriveSubscription(q, U) ==
    \E u \in U, p \in PlanInputs : create_subscription_checkout(q, u, p)

ArrivePoll(q, U) ==
    \/ \E u \in U, s \in SessionIds : get_reservation_status(q, u, s)
    \/ \E u \in U, s \in SessionIds : get_subscription_status(q, u, s)

ArriveWebhook(q) ==
    \E signed \in BOOLEAN, e \in EventInputs, s \in SessionIds :
        Delivers(signed, e, s) /\ stripe_webhook(q, signed, e, s)

ArriveUpload(q, U) ==
    \E u \in U, suffix \in SuffixInputs, content \in ContentInputs :
        upload_file(q, u, suffix, content)

ArriveInit(q, U, suffixes) ==
    \E u \in U, suffix \in suffixes, total_chunks \in TotalChunksInputs :
        init_chunked_upload(q, u, suffix, total_chunks)

ArriveChunk(q, U) ==
    \E u \in U, upload_id \in 1..MaxUploads, chunk_index \in ChunkIndexInputs :
        upload_chunk(q, u, upload_id, chunk_index, piece(chunk_index))

\* A chunk sent with either body.
ArriveRechunk(q, U) ==
    \E u \in U, upload_id \in 1..MaxUploads, chunk_index \in ChunkIndexInputs :
        \E content \in {piece(chunk_index), revised(chunk_index)} :
            upload_chunk(q, u, upload_id, chunk_index, content)

\* A chunk sent under an id that no session was ever given.
ArriveStray(q, U) ==
    \E u \in U, chunk_index \in ChunkIndexInputs :
        upload_chunk(q, u, MaxUploads + 1, chunk_index, piece(chunk_index))

ArriveComplete(q, U) ==
    \E u \in U, upload_id \in 1..MaxUploads : complete_chunked_upload(q, u, upload_id)

ResumeUpload(q) ==
    \/ upload_chunk_write(q)
    \/ upload_chunk_record(q)
    \/ complete_chunked_upload_read(q)
    \/ complete_chunked_upload_write(q)
    \/ complete_chunked_upload_finish(q)

ArriveStream(q) ==
    \E id \in 1..MaxUploads, suffix \in SuffixInputs, a \in CredentialInputs :
        stream_video(q, FileName(id, suffix), a, NoRange)

\* Requests for a span of a video, from the accounts.
ArriveRange(q, U) ==
    \E id \in 1..MaxUploads, u \in U, range_header \in RangeInputs :
        stream_video(q, FileName(id, ".mp4"), Bearer(u, MaxNow + 1, TRUE), range_header)

\* The credentials a client holds: none, a token nobody signed, and the
\* tokens login has returned.
HeldCredentials == {NoAuthorization, Bearer("u1", MaxNow + 1, FALSE)} \cup tokens

ArriveLogin(q) ==
    \E email \in LoginEmails, password \in PasswordInputs : login(q, email, password)

ArriveMe(q) == \E a \in HeldCredentials : get_me(q, a)

ArriveLogout(q) == \E a \in HeldCredentials : logout(q, a)

ArriveHeld(q) ==
    \E a \in HeldCredentials : stream_video(q, FileName(1, ".mp4"), a, NoRange)

ArriveBlock(q) == \E user_id \in {"u1", "admin", "ghost"} : block_user(q, "admin", user_id)

ArriveUnblock(q) == \E user_id \in {"u1", "ghost"} : unblock_user(q, "admin", user_id)

ArriveReset(q) ==
    \E email \in LoginEmails, valid \in BOOLEAN, new_password \in PasswordInputs :
        reset_password(q, email, valid, new_password)

ResumeAuth(q) ==
    \/ login_insert(q)
    \/ delete_expired_session(q)
    \/ get_me_user(q)
    \/ logout_user(q)
    \/ logout_delete(q)
    \/ block_user_sessions(q)

Arrive(q) ==
    \/ ArriveCreate(q, UserIds, BookingInputs)
    \/ ArriveUpdate(q, UserIds, StatusInputs)
    \/ ArriveSubscription(q, UserIds)
    \/ ArrivePoll(q, UserIds)
    \/ ArriveWebhook(q)
    \/ ArriveUpload(q, Accounts)
    \/ ArriveInit(q, UserIds, SuffixInputs)
    \/ ArriveChunk(q, UserIds)
    \/ ArriveComplete(q, UserIds)
    \/ ArriveStream(q)
    \/ ArriveLogin(q)
    \/ ArriveMe(q)
    \/ ArriveLogout(q)
    \/ ArriveBlock(q)
    \/ ArriveUnblock(q)
    \/ ArriveReset(q)
    \/ ArriveRange(q, Accounts)
    \/ ArriveSlots(q)
    \/ ArriveRegister(q)
    \/ ArriveRechunk(q, UserIds)
    \/ ArriveStray(q, UserIds)

\* The request in slot q resumes after an await.
ResumeBooking(q) ==
    \/ create_reservation_session(q)
    \/ create_reservation_insert(q)
    \/ create_reservation_transaction(q)
    \/ update_reservation_write(q)

ResumeCheckout(q) ==
    \/ create_reservation_session(q)
    \/ create_reservation_insert(q)
    \/ create_reservation_transaction(q)
    \/ create_subscription_transaction(q)
    \/ create_subscription_insert(q)

ResumePoll(q) ==
    \/ get_reservation_status_provider(q)
    \/ get_reservation_status_transaction(q)
    \/ get_reservation_status_confirm(q)
    \/ get_subscription_status_provider(q)
    \/ get_subscription_status_transaction(q)
    \/ get_subscription_status_activate(q)
    \/ get_subscription_status_user(q)

ResumeWebhook(q) ==
    \/ stripe_webhook_find(q)
    \/ stripe_webhook_confirm(q)
    \/ stripe_webhook_activate(q)
    \/ stripe_webhook_user(q)

Resume(q) ==
    \/ ResumeCheckout(q)
    \/ update_reservation_write(q)
    \/ ResumePoll(q)
    \/ ResumeWebhook(q)

Environment == (\E s \in SessionIds : Pay(s)) \/ Tick

\* Every handler, requests served concurrently: any free slot takes a request.
Next ==
    \/ \E q \in ReqIds : Arrive(q)
    \/ \E q \in ReqIds : Resume(q)
    \/ \E q \in ReqIds : ResumeUpload(q)
    \/ \E q \in ReqIds : stream_video_user(q)
    \/ \E q \in ReqIds : ResumeRegister(q)
    \/ \E q \in ReqIds : ResumeAuth(q) \/ reset_password_sessions(q)
    \/ Environment

Spec == Init /\ [][Next]_vars

\* Every handler, requests served one at a time: a request arrives only when
\* none is in flight.  Checkouts are for cabins 1 and 2 of one slot.
SeqBookings ==
    { Booking("2025-03-01", SlotLabel(9, 0, 9, 20), 1),
      Booking("2025-03-01", SlotLabel(9, 0, 9, 20), 2) }

NextSeq ==
    \/ InFlight = {} /\ ArriveCreate(1, UserIds, SeqBookings)
    \/ InFlight = {} /\ ArriveUpdate(1, UserIds, StatusInputs)
    \/ InFlight = {} /\ ArriveSubscription(1, UserIds)
    \/ InFlight = {} /\ ArrivePoll(1, UserIds)
    \/ InFlight = {} /\ ArriveWebhook(1)
    \/ Resume(1)
    \/ Environment

SpecSeq == Init /\ [][NextSeq]_vars

\* The bookings posted to the ledger alone: two cabins of one slot and a cabin
\* number outside 1..3.
LedgerBookings ==
    SeqBookings \cup {Booking("2025-03-01", SlotLabel(9, 0, 9, 20), 4)}

\* The reservation ledger alone, one request at a time: checkouts and status
\* updates with any status string.
NextLedger ==
    \/ InFlight = {} /\ ArriveCreate(1, UserIds, LedgerBookings)
    \/ InFlight = {} /\ ArriveUpdate(1, UserIds, StatusInputs)
    \/ ResumeBooking(1)

SpecLedger == Init /\ [][NextLedger]_vars

\* Checkouts and cancellations, one request at a time.
NextRebook ==
    \/ InFlight = {} /\ ArriveCreate(1, UserIds, BookingInputs)
    \/ InFlight = {} /\ ArriveUpdate(1, UserIds, {"cancelled"})
    \/ ResumeBooking(1)

SpecRebook == Init /\ [][NextRebook]_vars

\* Checkouts and cancellations served concurrently.
NextBooking ==
    \/ \E q \in ReqIds : ArriveCreate(q, UserIds, BookingInputs)
    \/ \E q \in ReqIds : ArriveUpdate(q, UserIds, {"cancelled"})
    \/ \E q \in ReqIds : ResumeBooking(q)

SpecBooking == Init /\ [][NextBooking]_vars

\* One customer's checkouts, one at a time, then that customer's status polls
\* and the provider's webhook deliveries served concurrently.
Customer == {"u1"}
CustomerBooking == {Booking("2025-03-01", SlotLabel(9, 0, 9, 20), 1)}

NextReconcile ==
    \/ InFlight = {} /\ ArriveCreate(1, Customer, CustomerBooking)
    \/ InFlight = {} /\ ArriveSubscription(1, Customer)
    \/ \E q \in ReqIds : ArrivePoll(q, Customer)
    \/ \E q \in ReqIds : ArriveWebhook(q)
    \/ \E q \in ReqIds : ResumeCheckout(q) \/ ResumePoll(q) \/ ResumeWebhook(q)
    \/ \E s \in SessionIds : Pay(s)

SpecReconcile == Init /\ [][NextReconcile]_vars

\* As SpecReconcile, without the webhook: concurrent status polls only.
NextPoll ==
    \/ InFlight = {} /\ ArriveCreate(1, Customer, CustomerBooking)
    \/ InFlight = {} /\ ArriveSubscription(1, Customer)
    \/ \E q \in ReqIds : ArrivePoll(q, Customer)
    \/ \E q \in ReqIds : ResumeCheckout(q) \/ ResumePoll(q)
    \/ \E s \in SessionIds : Pay(s)

SpecPoll == Init /\ [][NextPoll]_vars

\* One customer's reservation sessions (two cabins of one slot): checkouts,
\* status updates, reservation status polls and webhook deliveries, one request
\* at a time.
NextConfirm ==
    \/ InFlight = {} /\ ArriveCreate(1, Customer, SeqBookings)
    \/ InFlight = {} /\ ArriveUpdate(1, Customer, {"cancelled", "confirmed"})
    \/ InFlight = {} /\ \E s \in SessionIds : get_reservation_status(1, "u1", s)
    \/ InFlight = {} /\ ArriveWebhook(1)
    \/ ResumeBooking(1)
    \/ get_reservation_status_provider(1)
    \/ get_reservation_status_transaction(1)
    \/ get_reservation_status_confirm(1)
    \/ stripe_webhook_find(1)
    \/ stripe_webhook_confirm(1)
    \/ \E s \in SessionIds : Pay(s)

SpecConfirm == Init /\ [][NextConfirm]_vars

\* The customer's subscriptions, reconciled by the webhook, the passing of
\* days, an uploaded file and requests to stream it, one request at a time.
NextStream ==
    \/ InFlight = {} /\ ArriveSubscription(1, Customer)
    \/ create_subscription_transaction(1)
    \/ create_subscription_insert(1)
    \/ InFlight = {} /\ ArriveWebhook(1)
    \/ stripe_webhook_find(1)
    \/ stripe_webhook_activate(1)
    \/ stripe_webhook_user(1)
    \/ InFlight = {} /\ ArriveUpload(1, {"admin"})
    \/ InFlight = {} /\ ArriveStream(1)
    \/ stream_video_user(1)
    \/ Environment

SpecStream == Init /\ [][NextStream]_vars

\* The customer's chunked uploads of videos, one request at a time.
NextUpload ==
    \/ InFlight = {} /\ ArriveInit(1, Customer, {".mp4"})
    \/ InFlight = {} /\ ArriveChunk(1, Customer)
    \/ InFlight = {} /\ ArriveComplete(1, Customer)
    \/ ResumeUpload(1)

SpecUpload == Init /\ [][NextUpload]_vars

\* The customer's upload sessions, opened one at a time, and the chunks of a
\* session sent concurrently.
NextChunks ==
    \/ InFlight = {} /\ ArriveInit(1, Customer, {".mp4"})
    \/ \E q \in ReqIds : ArriveChunk(q, Customer)
    \/ \E q \in ReqIds : upload_chunk_write(q)
    \/ \E q \in ReqIds : upload_chunk_record(q)

SpecChunks == Init /\ [][NextChunks]_vars

\* The customer's upload sessions and chunks sent again, with the same or
\* with another body, one request at a time.
NextRechunk ==
    \/ InFlight = {} /\ ArriveInit(1, Customer, {".mp4"})
    \/ InFlight = {} /\ ArriveRechunk(1, Customer)
    \/ upload_chunk_write(1)
    \/ upload_chunk_record(1)

SpecRechunk == Init /\ [][NextRechunk]_vars

\* A file uploaded by the administrator and requests for spans of it from the
\* administrator and from an account on the basic plan, one request at a time.
NextRange ==
    \/ InFlight = {} /\ ArriveUpload(1, {"admin"})
    \/ InFlight = {} /\ ArriveRange(1, {"admin", "u1"})
    \/ stream_video_user(1)

SpecRange == Init /\ [][NextRange]_vars

\* The state after the customer's subscription was activated.
InitAuth ==
    /\ reservations = <<>>
    /\ payment_transactions = <<>>
    /\ subscriptions = <<>>
    /\ users = [u \in Accounts |-> IF u = "u1" THEN "daily" ELSE "basic"]
    /\ stripe = <<>>
    /\ now = 0
    /\ req = [q \in ReqIds |-> Idle]
    /\ uploads = <<>>
    /\ chunked_uploads = <<>>
    /\ uuids = 0
    /\ arrivals = <<>>
    /\ registered = <<>>
    /\ mail = <<>>
    /\ user_sessions = <<>>
    /\ is_blocked = [u \in Accounts |-> FALSE]
    /\ password_hash =
          [u \in Accounts |-> IF oauth_provider(u) # "" THEN NoHash
                              ELSE hash_password("secret")]
    /\ tokens = {}

\* Sessions: uploads of the administrator, logins, requests with the held
\* credentials, blocks and unblocks, one request at a time.
NextAuth ==
    \/ InFlight = {} /\ ArriveUpload(1, {"admin"})
    \/ InFlight = {} /\ ArriveLogin(1)
    \/ InFlight = {} /\ ArriveMe(1)
    \/ InFlight = {} /\ ArriveLogout(1)
    \/ InFlight = {} /\ ArriveHeld(1)
    \/ InFlight = {} /\ ArriveBlock(1)
    \/ InFlight = {} /\ ArriveUnblock(1)
    \/ stream_video_user(1)
    \/ ResumeAuth(1)
    \/ Tick

SpecAuth == InitAuth /\ [][NextAuth]_vars

\* The customer's upload sessions and chunks on slot 1 and the completions of
\* either account on slot 2; one request at a time.
NextFinalize ==
    \/ InFlight = {} /\ ArriveInit(1, Customer, {".mp4"})
    \/ InFlight = {} /\ ArriveChunk(1, Customer)
    \/ upload_chunk_write(1)
    \/ upload_chunk_record(1)
    \/ InFlight = {} /\ ArriveComplete(2, UserIds)
    \/ complete_chunked_upload_read(2)
    \/ complete_chunked_upload_write(2)
    \/ complete_chunked_upload_finish(2)

SpecFinalize == Init /\ [][NextFinalize]_vars

\* No slot has taken a completion yet.
NoCompletion == \A q \in ReqIds : req[q].op # "complete"

\* The customer's upload sessions, opened and filled one request at a time,
\* and then one completion on each slot, served concurrently.
NextRace ==
    \/ NoCompletion /\ InFlight = {} /\ ArriveInit(1, Customer, {".mp4"})
    \/ NoCompletion /\ InFlight = {} /\ ArriveChunk(1, Customer)
    \/ upload_chunk_write(1)
    \/ upload_chunk_record(1)
    \/ \E q \in ReqIds : req[q].op # "complete" /\ ArriveComplete(q, Customer)
    \/ \E q \in ReqIds : complete_chunked_upload_read(q)
    \/ \E q \in ReqIds : complete_chunked_upload_write(q)
    \/ \E q \in ReqIds : complete_chunked_upload_finish(q)

SpecRace == Init /\ [][NextRace]_vars

\* The customer's subscription checkouts and the status polls of both
\* accounts, one request at a time.
NextEntitle ==
    \/ InFlight = {} /\ ArriveSubscription(1, Customer)
    \/ create_subscription_transaction(1)
    \/ create_subscription_insert(1)
    \/ InFlight = {} /\ \E u \in UserIds, s \in SessionIds : get_subscription_status(1, u, s)
    \/ get_subscription_status_provider(1)
    \/ get_subscription_status_transaction(1)
    \/ get_subscription_status_activate(1)
    \/ get_subscription_status_user(1)
    \/ \E s \in SessionIds : Pay(s)

SpecEntitle == Init /\ [][NextEntitle]_vars

\* Logins, current-user requests and the administrator's blocks, one request
\* at a time.
NextLogin ==
    \/ InFlight = {} /\ ArriveLogin(1)
    \/ login_insert(1)
    \/ InFlight = {} /\ ArriveMe(1)
    \/ delete_expired_session(1)
    \/ get_me_user(1)
    \/ InFlight = {} /\ ArriveBlock(1)
    \/ block_user_sessions(1)
    \/ InFlight = {} /\ ArriveUnblock(1)
    \/ Tick

SpecLogin == InitAuth /\ [][NextLogin]_vars

\* Password resets among logins, one request at a time.
NextReset ==
    \/ InFlight = {} /\ ArriveLogin(1)
    \/ login_insert(1)
    \/ InFlight = {} /\ ArriveReset(1)
    \/ reset_password_sessions(1)
    \/ Tick

SpecReset == InitAuth /\ [][NextReset]_vars

\* Registrations, one request at a time.
NextRegister ==
    \/ InFlight = {} /\ ArriveRegister(1)
    \/ ResumeRegister(1)

SpecRegister == Init /\ [][NextRegister]_vars

\* The availability query on a ledger.
NextSlots == ArriveSlots(1)

SpecSlots == InitSlots /\ [][NextSlots]_vars

\* The other account.
Outsider == {"u2"}

\* The customer's upload sessions and chunks on slot 1, chunks under an unknown
\* id from either account, and the other account's chunks for the customer's
\* sessions on slot 2; one request at a time.
NextGuard ==
    \/ InFlight = {} /\ ArriveInit(1, Customer, {".mp4"})
    \/ InFlight = {} /\ ArriveChunk(1, Customer)
    \/ InFlight = {} /\ ArriveStray(1, UserIds)
    \/ InFlight = {} /\ ArriveChunk(2, Outsider)
    \/ upload_chunk_write(1)
    \/ upload_chunk_record(1)

SpecGuard == Init /\ [][NextGuard]_vars

(***************************************************************************)
(* Properties.                                                             *)
(***************************************************************************)
Holds(r) == r.status \in {"pending", "confirmed"}

SameTriple(r, b) ==
    /\ r.reservation_date = b.reservation_date
    /\ r.time_slot = b.time_slot
    /\ r.cabin_number = b.cabin_number

\* Some pending or confirmed reservation occupies the booking's triple.
Occupied(b) ==
    \E i \in 1..Len(reservations) : SameTriple(reservations[i], b) /\ Holds(reservations[i])

\* C1: booking uniqueness: at most one pending or confirmed reservation per
\* (reservation_date, time_slot, cabin_number), whatever the interleaving of the
\* checkouts.
C1_BookingUnique ==
    \A i, j \in 1..Len(reservations) :
        ( /\ i # j
          /\ SameTriple(reservations[i], reservations[j])
          /\ Holds(reservations[i]) ) => ~Holds(reservations[j])

\* The request in slot q takes this step.
Acts(q) == req'[q] # req[q]

\* The reservation a checkout session belongs to (0: none).
ReservationOf(session_id) ==
    FirstIndex({i \in 1..Len(reservations) :
                   reservations[i].stripe_session_id = session_id})

SubscriptionOf(session_id) ==
    FirstIndex({i \in 1..Len(subscriptions) :
                   subscriptions[i].stripe_session_id = session_id})

\* The request in slot q is a reconcile (poll or webhook) writing the
\* reservation of its session.
ConfirmStep(q) ==
    /\ req[q].op \in {"rpoll", "webhook"}
    /\ req[q].pc = "update_reservation"
    /\ Acts(q)

\* C2: a reconcile (poll or webhook) for a session whose reservation is
\* cancelled leaves that reservation cancelled.
C2_CancelledStaysCancelled ==
    [][ \A q \in ReqIds :
          LET i == ReservationOf(req[q].session_id)
          IN  (ConfirmStep(q) /\ i # 0 /\ reservations[i].status = "cancelled")
                  => reservations'[i].status = "cancelled" ]_vars

\* C3: every confirmed reservation has a payment transaction of its session
\* that is paid.
C3_ConfirmedImpliesPaid ==
    \A i \in 1..Len(reservations) :
        reservations[i].status = "confirmed" => TxnPaid(reservations[i].stripe_session_id)

\* C4: a reconcile (poll or webhook) that arrives when its session's
\* transaction is already paid changes nothing in the database.
C4_ReconcileIdempotent ==
    [][ \A q \in ReqIds :
          (Acts(q) /\ (req[q].paid_at_start \/ req'[q].paid_at_start))
              => db' = db ]_vars

\* C5: the side effect of a paid session is applied once: no reconcile writes
\* the subscription of a session that is already paid, nor confirms a
\* reservation that is already confirmed.
C5_SideEffectOnce ==
    [][ \A q \in ReqIds :
          LET r == ReservationOf(req[q].session_id)
              s == SubscriptionOf(req[q].session_id)
          IN  /\ (ConfirmStep(q) /\ r # 0) => reservations[r].status # "confirmed"
              /\ ( /\ req[q].op \in {"spoll", "webhook"}
                   /\ req[q].pc = "update_subscription"
                   /\ Acts(q)
                   /\ s # 0 ) => subscriptions[s].payment_status # "paid" ]_vars

\* C6: a checkout for a triple that a pending or confirmed reservation holds
\* returns SlotConflict at once and changes neither the ledger, nor the
\* transactions, nor the provider's sessions.
C6_ConflictLeavesLedger ==
    [][ \A q \in ReqIds, u \in UserIds, b \in BookingInputs :
          (create_reservation_checkout(q, u, b) /\ Occupied(b))
              => /\ req'[q].pc = "done"
                 /\ req'[q].result = "SlotConflict"
                 /\ reservations' = reservations
                 /\ payment_transactions' = payment_transactions
                 /\ stripe' = stripe ]_vars

\* A checkout was refused with SlotConflict for a triple that is held.
C6_Witness ==
    \E q \in ReqIds :
        /\ req[q].op = "create" /\ req[q].result = "SlotConflict"
        /\ Occupied(req[q].booking)

InSeq(x, s) == \E k \in 1..Len(s) : s[k] = x

\* The all-cabins answer lists the cabin as free at the slot.
ListedFree(answer, slot, cabin) ==
    \E k \in 1..Len(answer) :
        answer[k].time_slot = slot /\ InSeq(cabin, answer[k].available_cabin_numbers)

\* The request in slot q writes "cancelled" on the only non-cancelled
\* reservation of its triple.
CancelsOnlyHolder(q) ==
    /\ req[q].op = "update" /\ req[q].pc = "write" /\ req[q].status = "cancelled"
    /\ Acts(q)
    /\ req[q].reservation_id \in 1..Len(reservations)
    /\ reservations[req[q].reservation_id].status # "cancelled"
    /\ \A j \in 1..Len(reservations) :
          ( /\ j # req[q].reservation_id
            /\ SameTriple(reservations[j], reservations[req[q].reservation_id]) )
              => reservations[j].status = "cancelled"

\* C7: right after such a cancel both availability queries show the slot free:
\* the per-cabin answer contains the slot and the all-cabins answer lists the
\* cabin at the slot.
C7_CancelFreesSlot ==
    [][ \A q \in ReqIds :
          CancelsOnlyHolder(q) =>
              LET r == reservations[req[q].reservation_id]
              IN  /\ InSeq(r.time_slot,
                           slots_free_in(reservations', r.reservation_date, r.cabin_number))
                  /\ ListedFree(slots_listed_in(reservations', r.reservation_date),
                                r.time_slot, r.cabin_number) ]_vars

Owns(u, reservation_id) ==
    /\ reservation_id \in 1..Len(reservations)
    /\ reservations[reservation_id].user_id = u

\* C8: with checkouts and cancellations served one at a time, booking
\* uniqueness holds in every state; a checkout of a free triple (cabin 1..3) is
\* admitted and inserts a pending reservation of that triple, a checkout of a
\* held triple returns SlotConflict, and the owner's cancel is admitted.
C8_Rebooking ==
    /\ []C1_BookingUnique
    /\ [][ /\ \A q \in ReqIds, u \in UserIds, b \in BookingInputs :
                (create_reservation_checkout(q, u, b) /\ b.cabin_number \in {1, 2, 3})
                    => IF Occupied(b)
                       THEN req'[q].pc = "done" /\ req'[q].result = "SlotConflict"
                       ELSE req'[q].pc = "session"
           /\ \A q \in ReqIds :
                (req[q].op = "create" /\ req[q].pc = "insert_reservation" /\ Acts(q))
                    => /\ Len(reservations') = Len(reservations) + 1
                       /\ SameTriple(reservations'[Len(reservations')], req[q].booking)
                       /\ reservations'[Len(reservations')].status = "pending"
                       /\ reservations'[Len(reservations')].user_id = req[q].user
           /\ \A q \in ReqIds :
                (req[q].op = "create" /\ req[q].pc = "insert_transaction" /\ Acts(q))
                    => req'[q].result = "ok"
           /\ \A q \in ReqIds, u \in UserIds, i \in 1..MaxSessions :
                (update_reservation(q, u, i, "cancelled") /\ Owns(u, i))
                    => req'[q].pc = "write" ]_vars

\* A triple was booked, cancelled and booked again, and a further checkout of
\* it was refused.
C8_Witness ==
    \E i, j \in 1..Len(reservations) :
        /\ i < j
        /\ SameTriple(reservations[i], reservations[j])
        /\ reservations[i].status = "cancelled"
        /\ reservations[j].status = "pending"
        /\ req[1].op = "create" /\ req[1].result = "SlotConflict"
        /\ SameTriple(reservations[j], req[1].booking)

\* C9: update_reservation by a user who owns no reservation of that id returns
\* NotFound and changes no reservation; by the owner it is admitted and its
\* write changes the status of that reservation alone, to the status asked
\* for: a cancel leaves it cancelled.
C9_CancelOwnerOnly ==
    [][ /\ \A q \in ReqIds, u \in UserIds, i \in 1..MaxSessions, st \in StatusInputs :
             update_reservation(q, u, i, st)
                 => IF Owns(u, i)
                    THEN req'[q].pc = "write" /\ reservations' = reservations
                    ELSE /\ req'[q].pc = "done" /\ req'[q].result = "NotFound"
                         /\ reservations' = reservations
        /\ \A q \in ReqIds :
             (req[q].op = "update" /\ req[q].pc = "write" /\ Acts(q))
                 => /\ req'[q].result = "ok"
                    /\ Len(reservations') = Len(reservations)
                    /\ \A j \in 1..Len(reservations) :
                          IF j = req[q].reservation_id
                          THEN /\ reservations'[j] =
                                     [reservations[j] EXCEPT !.status = req[q].status]
                               /\ req[q].status = "cancelled"
                                     => reservations'[j].status = "cancelled"
                          ELSE reservations'[j] = reservations[j] ]_vars

\* A user's update of another user's reservation was refused while the
\* owner's own cancel of a reservation went through.
C9_Witness ==
    \E q \in ReqIds :
        /\ req[q].op = "update" /\ req[q].result = "NotFound"
        /\ req[q].reservation_id \in 1..Len(reservations)
        /\ reservations[req[q].reservation_id].user_id # req[q].user
        /\ reservations[req[q].reservation_id].status # "cancelled"
        /\ \E j \in 1..Len(reservations) : reservations[j].status = "cancelled"

\* C10: every reservation's status is pending, confirmed or cancelled.
C10_StatusValid ==
    \A i \in 1..Len(reservations) :
        reservations[i].status \in {"pending", "confirmed", "cancelled"}

\* The reservation of the session is confirmed.
Confirmed(session_id) ==
    /\ ReservationOf(session_id) # 0
    /\ reservations[ReservationOf(session_id)].status = "confirmed"

\* C11: every step of a reconcile (a status poll, or a signed webhook for a
\* completed checkout) of a session whose reservation is already confirmed
\* leaves every reservation as it is, that one confirmed, and the request does
\* not end in an error.
C11_ConfirmIdempotent ==
    [][ /\ \A q \in ReqIds, u \in UserIds, s \in SessionIds :
             ( /\ \/ get_reservation_status(q, u, s)
                  \/ stripe_webhook(q, TRUE, "checkout.session.completed", s)
               /\ Confirmed(s) )
                 => /\ reservations' = reservations
                    /\ req'[q].result \notin {"NotFound", "BadRequest"}
        /\ \A q \in ReqIds :
             ( /\ req[q].op \in {"rpoll", "webhook"}
               /\ ~Free(q) /\ Acts(q)
               /\ Confirmed(req[q].session_id) )
                 => /\ reservations' = reservations
                    /\ req'[q].result \notin {"NotFound", "BadRequest"} ]_vars

\* A redelivered webhook is about to write the reservation of its session,
\* which is already confirmed, while another reservation is not confirmed.
C11_Witness ==
    \E q \in ReqIds :
        /\ req[q].op = "webhook" /\ req[q].pc = "update_reservation"
        /\ req[q].paid_at_start
        /\ Confirmed(req[q].session_id)
        /\ \E j \in 1..Len(reservations) : reservations[j].status # "confirmed"

\* The provider reports the session paid and its transaction is recorded.
ProviderPaid(session_id) ==
    /\ session_id \in 1..Len(stripe)
    /\ stripe[session_id] = "paid"
    /\ TxnOf(session_id) # 0

\* C12: from every state with no request in flight in which the provider
\* reports a session paid, the
\* webhook for the completed checkout and the status poll of the session's
\* purpose, made by the user who opened the session, leave the same
\* transactions, reservations, subscriptions and users.
C12_WebhookEqualsPoll ==
    \A s \in SessionIds :
        (InFlight = {} /\ ProviderPaid(s)) =>
            LET t == payment_transactions[TxnOf(s)]
            IN  stripe_webhook_outcome(s) =
                    IF metadata_type(t) = "reservation"
                    THEN get_reservation_status_outcome(t.user_id, s)
                    ELSE get_subscription_status_outcome(t.user_id, s)

\* C13: no step of a reconcile (either status poll, or the webhook) of a
\* session whose transaction metadata type is reservation changes a
\* subscription or a user's subscription_plan, and no step of a reconcile of a
\* subscription-purpose session changes a reservation.
C13_SideEffectFollowsPurpose ==
    [][ \A q \in ReqIds :
          ( /\ req[q].op \in {"rpoll", "spoll", "webhook"}
            /\ ~Free(q) /\ Acts(q)
            /\ TxnOf(req[q].session_id) # 0 )
              => IF metadata_type(payment_transactions[TxnOf(req[q].session_id)])
                       = "reservation"
                 THEN subscriptions' = subscriptions /\ users' = users
                 ELSE reservations' = reservations ]_vars

\* The side effect of transaction t is in place in the given reservations and
\* subscriptions: its reservation is confirmed (or cancelled), or its
\* subscription is paid with start_date and end_date set.
SideEffectApplied(t, ledger, subs) ==
    IF metadata_type(t) = "reservation"
    THEN \E i \in 1..Len(ledger) :
            /\ ledger[i].stripe_session_id = t.session_id
            /\ ledger[i].status \in {"confirmed", "cancelled"}
    ELSE \E i \in 1..Len(subs) :
            /\ subs[i].stripe_session_id = t.session_id
            /\ subs[i].payment_status = "paid"
            /\ subs[i].start_date # -1 /\ subs[i].end_date # -1

\* C14: with no request in flight every paid transaction has its side effect
\* in place, and whenever a status poll answers paid the side effect of the
\* session's transaction is in place.
C14_PaidWithSideEffect ==
    /\ [](InFlight = {} =>
            \A i \in 1..Len(payment_transactions) :
                payment_transactions[i].payment_status = "paid"
                    => SideEffectApplied(payment_transactions[i], reservations,
                                         subscriptions))
    /\ [][ /\ \A q \in ReqIds, u \in UserIds, s \in SessionIds :
                ( /\ get_reservation_status(q, u, s) \/ get_subscription_status(q, u, s)
                  /\ req'[q].result = "paid" )
                    => SideEffectApplied(payment_transactions[TxnOf(s)],
                                         reservations', subscriptions')
           /\ \A q \in ReqIds :
                ( /\ req[q].op \in {"rpoll", "spoll"}
                  /\ ~Free(q) /\ Acts(q)
                  /\ req'[q].result = "paid" )
                    => SideEffectApplied(payment_transactions[TxnOf(req[q].session_id)],
                                         reservations', subscriptions') ]_vars

\* C15: a subscription that is initiated has neither start_date nor end_date,
\* a paid one has end_date = start_date + duration_days of its plan, and the
\* dates of a paid subscription never change.
C15_DatesSetOnce ==
    /\ [](\A i \in 1..Len(subscriptions) :
            /\ subscriptions[i].payment_status = "initiated"
                  => subscriptions[i].start_date = -1 /\ subscriptions[i].end_date = -1
            /\ subscriptions[i].payment_status = "paid"
                  => /\ subscriptions[i].start_date # -1
                     /\ subscriptions[i].end_date =
                            subscriptions[i].start_date
                                + duration_days(subscriptions[i].plan_type))
    /\ [][ \A i \in 1..Len(subscriptions) :
              subscriptions[i].payment_status = "paid"
                  => /\ subscriptions'[i].start_date = subscriptions[i].start_date
                     /\ subscriptions'[i].end_date = subscriptions[i].end_date ]_vars

\* The most recently created paid subscription of the user (0: none).
LastPaid(u) ==
    LET paid == {i \in 1..Len(subscriptions) :
                    /\ subscriptions[i].user_id = u
                    /\ subscriptions[i].payment_status = "paid"}
    IN  IF paid = {} THEN 0 ELSE CHOOSE i \in paid : \A j \in paid : j <= i

\* C16: stream_video, given a credential in force, answers Forbidden to a
\* user who is no administrator and whose most recent paid subscription ended
\* before now, and serves only administrators and users whose most recent paid
\* subscription has not ended.
C16_StreamNeedsEntitlement ==
    [][ \A q \in ReqIds :
          ( /\ req[q].op = "stream" /\ req[q].pc = "find_user" /\ Acts(q)
            /\ req[q].user \in DOMAIN users
            /\ role(req[q].user) # "admin" )
              => LET i == LastPaid(req[q].user)
                 IN  /\ (i # 0 /\ subscriptions[i].end_date < now)
                           => req'[q].result = "Forbidden"
                     /\ req'[q].result = "served"
                           => (i # 0 /\ subscriptions[i].end_date >= now) ]_vars

\* The request came with a credential in force: a bearer token whose signature
\* verifies, not expired, for an account of db.users.
ValidCredential(authorization) ==
    /\ authorization.scheme = "Bearer"
    /\ authorization.signed
    /\ authorization.exp > now
    /\ authorization.sub \in DOMAIN users

\* C17: stream_video answers Unauthorized to every request without a
\* credential in force, whatever file it names: one that exists, one that does
\* not, one that is no video.
C17_StreamUnauthorizedFirst ==
    [][ \A q \in ReqIds, id \in 1..MaxUploads, suffix \in SuffixInputs,
           a \in CredentialInputs :
          (stream_video(q, FileName(id, suffix), a, NoRange) /\ ~ValidCredential(a))
              => \/ req'[q].pc = "done" /\ req'[q].result = "Unauthorized"
                 \/ req'[q].pc = "find_user" /\ req'[q].user \notin DOMAIN users ]_vars

\* The indices a session expects: 0 .. total_chunks - 1.
Expected(upload_info) == 0..(upload_info.total_chunks - 1)

\* C18: complete_chunked_upload on a session whose received set is not
\* {0, ..., total_chunks - 1} fails with IncompleteUpload and writes nothing
\* to uploads/, and a completion succeeds only on the full set.
C18_CompletionGuard ==
    [][ /\ \A q \in ReqIds, u \in UserIds, id \in 1..MaxUploads :
             ( /\ complete_chunked_upload(q, u, id)
               /\ id \in DOMAIN chunked_uploads
               /\ chunked_uploads[id].received_chunks # Expected(chunked_uploads[id]) )
                 => /\ req'[q].pc = "done"
                    /\ req'[q].result = "IncompleteUpload"
                    /\ uploads' = uploads
        /\ \A q \in ReqIds :
             ( /\ req[q].op = "complete" /\ ~Free(q) /\ Acts(q)
               /\ req'[q].result = "ok" )
                 => /\ req[q].upload_id \in DOMAIN chunked_uploads
                    /\ chunked_uploads[req[q].upload_id].received_chunks
                           = Expected(chunked_uploads[req[q].upload_id]) ]_vars

\* The expected indices the session has not received.
Missing(upload_info) == Expected(upload_info) \ upload_info.received_chunks

\* The detail names the missing set: every received set that produces this
\* detail for a session of as many chunks misses exactly these indices.
Names(detail, total_chunks, missing) ==
    \A received \in SUBSET ChunkIndexInputs :
        missing_chunks_detail(received, total_chunks) = detail
            => (0..(total_chunks - 1)) \ received = missing

\* C19: complete_chunked_upload on a session that lacks an index of
\* 0 .. total_chunks - 1 fails with IncompleteUpload and its detail names
\* exactly the missing indices.
C19_MissingNamed ==
    [][ \A q \in ReqIds, u \in UserIds, id \in 1..MaxUploads :
          ( /\ complete_chunked_upload(q, u, id)
            /\ id \in DOMAIN chunked_uploads
            /\ Missing(chunked_uploads[id]) # {} )
              => /\ req'[q].pc = "done"
                 /\ req'[q].result = "IncompleteUpload"
                 /\ Names(req'[q].detail, chunked_uploads[id].total_chunks,
                          Missing(chunked_uploads[id])) ]_vars

\* The pieces of indices 0 .. total_chunks - 1, concatenated in that order.
InOrder(total_chunks) ==
    LET f[k \in 0..total_chunks] == IF k = 0 THEN <<>> ELSE f[k - 1] \o piece(k - 1)
    IN  f[total_chunks]

\* C20: whatever the order in which the chunks of indices 0 .. total_chunks - 1
\* arrived, complete_chunked_upload is admitted, reads every chunk, and ends
\* with the final file holding the pieces in increasing index order.
C20_ReassemblyInIndexOrder ==
    [][ /\ \A q \in ReqIds, u \in UserIds, id \in 1..MaxUploads :
             ( /\ complete_chunked_upload(q, u, id)
               /\ id \in DOMAIN chunked_uploads
               /\ chunked_uploads[id].received_chunks = Expected(chunked_uploads[id]) )
                 => req'[q].pc = "read"
        /\ \A q \in ReqIds :
             ( /\ req[q].op = "complete" /\ ~Free(q) /\ Acts(q)
               /\ req[q].upload_id \in DOMAIN chunked_uploads
               /\ chunked_uploads[req[q].upload_id].received_chunks
                      = Expected(chunked_uploads[req[q].upload_id]) )
                 => /\ req'[q].result # "CombineError"
                    /\ req'[q].result = "ok"
                          => uploads'[req[q].filename] = InOrder(req[q].total_chunks) ]_vars

\* A session of three chunks that arrived in the order 2, 0, 1 was completed
\* and its final file holds the three pieces in index order.
C20_Witness ==
    /\ arrivals = <<<<1, 2, piece(2)>>, <<1, 0, piece(0)>>, <<1, 1, piece(1)>>>>
    /\ \E q \in ReqIds : req[q].op = "complete" /\ req[q].result = "ok"
    /\ FileName(1, ".mp4") \in DOMAIN uploads
    /\ uploads[FileName(1, ".mp4")] = InOrder(3)

\* The indices of the session that upload_chunk requests have written.
Written(upload_id) ==
    {arrivals[k][2] : k \in {j \in 1..Len(arrivals) : arrivals[j][1] = upload_id}}

\* C21: whatever the interleaving of the upload_chunk requests of a session,
\* its received set holds only indices that were written, and once no
\* upload_chunk is in flight it holds all of them and the chunk file of every
\* received index holds the whole piece of that index.
C21_ConcurrentChunksSafe ==
    \A id \in DOMAIN chunked_uploads :
        /\ chunked_uploads[id].received_chunks \subseteq Written(id)
        /\ InFlight = {} =>
              /\ chunked_uploads[id].received_chunks = Written(id)
              /\ \A i \in chunked_uploads[id].received_chunks :
                    /\ chunk_path(id, i) \in DOMAIN uploads
                    /\ uploads[chunk_path(id, i)] = piece(i)

\* Two upload_chunk requests of one session, for different indices, have both
\* written and not yet recorded, and the session has received an index before.
C21_Witness ==
    \E q1, q2 \in ReqIds :
        /\ q1 # q2
        /\ req[q1].op = "chunk" /\ req[q1].pc = "record"
        /\ req[q2].op = "chunk" /\ req[q2].pc = "record"
        /\ req[q1].upload_id = req[q2].upload_id
        /\ req[q1].chunk_index # req[q2].chunk_index
        /\ req[q1].upload_id \in DOMAIN chunked_uploads
        /\ chunked_uploads[req[q1].upload_id].received_chunks # {}

\* The body of the last chunk written for an index of a session.
LastWritten(upload_id, chunk_index) ==
    LET sent == {k \in 1..Len(arrivals) : /\ arrivals[k][1] = upload_id
                                          /\ arrivals[k][2] = chunk_index}
    IN  arrivals[CHOOSE k \in sent : \A j \in sent : j <= k][3]

\* C22: receiving an index again is idempotent on the received set and
\* replaces the stored body.  With chunks sent one at a time, with the same or
\* with another body, whenever no request is in flight the received set of a
\* session is the set of indices sent for it, however often each was sent, and
\* the chunk file of every received index holds exactly the body sent last:
\* the same body again leaves the set, its size and the file as they were,
\* another body replaces the file and leaves the set as it was.
C22_RechunkIdempotent ==
    InFlight = {} =>
        \A id \in DOMAIN chunked_uploads :
            /\ chunked_uploads[id].received_chunks = Written(id)
            /\ \A i \in chunked_uploads[id].received_chunks :
                  /\ chunk_path(id, i) \in DOMAIN uploads
                  /\ uploads[chunk_path(id, i)] = LastWritten(id, i)

\* C22 witness: index 0 of a session was sent twice with one body and then
\* with a shorter one; the set holds the one index and the file the last body.
C22_Witness ==
    /\ InFlight = {}
    /\ arrivals = <<<<1, 0, revised(0)>>, <<1, 0, revised(0)>>, <<1, 0, piece(0)>>>>
    /\ chunked_uploads[1].received_chunks = {0}
    /\ uploads[chunk_path(1, 0)] = piece(0)

\* The call fails with the outcome and changes neither a file nor a session.
Refused(q, outcome) ==
    /\ req'[q].result = outcome
    /\ req'[q].pc = "done"
    /\ uploads' = uploads
    /\ chunked_uploads' = chunked_uploads

\* C23: a chunk for an unknown session id fails with SessionNotFound, a chunk
\* from an account that does not own the session fails with Forbidden, and in
\* both cases no body is stored and every session's received set stays as it
\* was.
C23_ChunkRefused ==
    [][\A q \in ReqIds, u \in UserIds, id \in 1..(MaxUploads + 1), i \in ChunkIndexInputs :
           upload_chunk(q, u, id, i, piece(i)) =>
               /\ id \notin DOMAIN chunked_uploads => Refused(q, "SessionNotFound")
               /\ (id \in DOMAIN chunked_uploads /\ chunked_uploads[id].user_id # u)
                     => Refused(q, "Forbidden")]_vars

\* C23 witness: with a chunk of the customer's session stored, the last call
\* on slot 1 was refused for an unknown session and the other account's call
\* on slot 2 was refused as forbidden.
C23_Witness ==
    /\ req[1].op = "chunk" /\ req[1].result = "SessionNotFound"
    /\ req[2].op = "chunk" /\ req[2].result = "Forbidden"
    /\ 1 \in DOMAIN chunked_uploads
    /\ chunked_uploads[1].received_chunks # {}
    /\ chunk_path(1, 0) \in DOMAIN uploads

\* The session id was issued and its session is gone.
Discarded(sessions, issued, upload_id) ==
    upload_id <= issued /\ upload_id \notin DOMAIN sessions

\* The chunk files of a session in a directory.
Artifacts(dir, upload_id) ==
    {n \in DOMAIN dir : n.kind = "chunk" /\ n.id = upload_id}

\* C24: a successful completion deletes every chunk file of the session and
\* discards the session, and from then on the session stays discarded, no
\* chunk file of it exists, and every upload_chunk and every
\* complete_chunked_upload with its id fails with SessionNotFound.
C24_CompletedSessionGone ==
    [][\A id \in 1..MaxUploads :
          /\ (\E q \in ReqIds : /\ complete_chunked_upload_finish(q)
                                 /\ req[q].upload_id = id
                                 /\ req'[q].result = "ok")
                => /\ Discarded(chunked_uploads', uuids', id)
                   /\ Artifacts(uploads', id) = {}
          /\ Discarded(chunked_uploads, uuids, id)
                => /\ Discarded(chunked_uploads', uuids', id)
                   /\ Artifacts(uploads', id) = {}
                   /\ \A q \in ReqIds, u \in UserIds :
                         /\ complete_chunked_upload(q, u, id)
                               => req'[q].result = "SessionNotFound"
                         /\ \A i \in ChunkIndexInputs :
                               upload_chunk(q, u, id, i, piece(i))
                                   => req'[q].result = "SessionNotFound"]_vars

\* C24 witness: the session of two chunks was completed, its file holds both,
\* none of its chunk files is left, and a later completion was answered with
\* SessionNotFound.
C24_Witness ==
    /\ Discarded(chunked_uploads, uuids, 1)
    /\ Artifacts(uploads, 1) = {}
    /\ FileName(1, ".mp4") \in DOMAIN uploads
    /\ uploads[FileName(1, ".mp4")] = piece(0) \o piece(1)
    /\ req[1].op = "complete" /\ req[1].upload_id = 1
    /\ req[1].result = "SessionNotFound"

\* C25: a request with Range 'bytes=start-end', 0 <= start <= end < total, that
\* is served gets status 206, Content-Range 'bytes start-e/total' with
\* e = min(end, start + MaxChunkSize - 1), Content-Length e - start + 1 and as
\* body the bytes start..e of the file, that many.
C25_RangeResponse ==
    \A q \in ReqIds :
        (/\ req[q].op = "stream" /\ req[q].result = "served"
         /\ req[q].range \in WellFormedRanges
         /\ req[q].filename \in DOMAIN uploads) =>
            LET blob == uploads[req[q].filename]
                total == Len(blob)
                start == req[q].range.text[2].n
                end == req[q].range.text[4].n
                e == Min(end, start + MaxChunkSize - 1)
                response == req[q].response
            IN  (0 <= start /\ start <= end /\ end < total) =>
                    /\ response.status = 206
                    /\ response.start = start
                    /\ response.end = e
                    /\ response.file_size = total
                    /\ response.content_length = e - start + 1
                    /\ Len(response.body) = e - start + 1
                    /\ response.body = SubSeq(blob, start + 1, e + 1)

\* C25 witness: 'bytes=0-2' on the file of three bytes, a span longer than
\* one response carries, was served as 0-1/3 with the first two bytes.
C25_Witness ==
    /\ req[1].op = "stream" /\ req[1].result = "served"
    /\ req[1].range = Range(<<sym("bytes="), num(0), sym("-"), num(2)>>)
    /\ req[1].filename \in DOMAIN uploads
    /\ Len(uploads[req[1].filename]) = 3
    /\ req[1].response.status = 206
    /\ req[1].response.end = 1
    /\ req[1].response.body = <<1, 2>>

\* C26: a Range header that is malformed (a start or an end that is no
\* number, no dash, another unit) never ends in an error: the request is
\* answered as one without a Range header, with the whole file from its start.
C26_MalformedRangeIgnored ==
    \A q \in ReqIds :
        (/\ req[q].op = "stream" /\ req[q].pc = "done"
         /\ req[q].range \in MalformedRanges
         /\ req[q].filename \in DOMAIN uploads
         /\ req[q].result \notin {"Unauthorized", "Forbidden"}) =>
            /\ req[q].result = "served"
            /\ req[q].response = full_content(uploads[req[q].filename])

\* A label's start and end in minutes of the day, and whether both are clock
\* times.
StartOf(slot) == 60 * slot[1] + slot[2]
EndOf(slot) == 60 * slot[3] + slot[4]
ClockTimes(slot) == slot[2] \in 0..59 /\ slot[4] \in 0..59

\* The reservations that hold a slot of a cabin on a date.
Holders(date, cabin_number, slot) ==
    {i \in 1..Len(reservations) : /\ reservations[i].reservation_date = date
                                  /\ reservations[i].cabin_number = cabin_number
                                  /\ reservations[i].time_slot = slot
                                  /\ reservations[i].status # "cancelled"}

\* An answered availability query.
Answered(q) == req[q].op = "slots" /\ req[q].pc = "done"

\* C27: the slot catalog is one ordered sequence of 27 distinct labels, the
\* i-th (from 0) the window from 09:00 + 20*i minutes to twenty minutes later,
\* each end the next start, from 09:00 to 18:00; and it is the same for every
\* date and cabin: every answer is drawn from it in its order, and a query
\* for a cabin nothing is booked in on that date gets all of it.
C27_SlotCatalog ==
    /\ Len(all_slots) = 27
    /\ \A i, j \in 1..Len(all_slots) : all_slots[i] = all_slots[j] => i = j
    /\ \A i \in 1..Len(all_slots) :
          /\ ClockTimes(all_slots[i])
          /\ StartOf(all_slots[i]) = 9 * 60 + 20 * (i - 1)
          /\ EndOf(all_slots[i]) = StartOf(all_slots[i]) + 20
          /\ i < Len(all_slots) => EndOf(all_slots[i]) = StartOf(all_slots[i + 1])
    /\ StartOf(all_slots[1]) = 9 * 60
    /\ EndOf(all_slots[Len(all_slots)]) = 18 * 60
    /\ \A q \in ReqIds :
          (Answered(q) /\ req[q].booking.cabin_number # 0) =>
              /\ \A k \in 1..Len(req[q].slots) : InSeq(req[q].slots[k], all_slots)
              /\ (\A slot \in {all_slots[i] : i \in 1..Len(all_slots)} :
                      Holders(req[q].booking.reservation_date,
                              req[q].booking.cabin_number, slot) = {})
                    => req[q].slots = all_slots

\* C27 witness: with reservations on another date in the ledger, the query
\* for a cabin was answered with the whole catalog, from 09:00-09:20 to
\* 17:40-18:00.
C27_Witness ==
    /\ Answered(1)
    /\ req[1].booking = Booking("2025-03-02", <<>>, 2)
    /\ Len(reservations) = 2
    /\ Len(req[1].slots) = 27
    /\ req[1].slots[1] = SlotLabel(9, 0, 9, 20)
    /\ req[1].slots[3] = SlotLabel(9, 40, 10, 0)
    /\ req[1].slots[27] = SlotLabel(17, 40, 18, 0)

\* C28: the answer for a date and a cabin of 1, 2, 3 is exactly the catalog
\* slots, in catalog order, that no reservation of that date and cabin holds
\* with a status other than cancelled.
C28_CabinAvailability ==
    \A q \in ReqIds :
        (Answered(q) /\ req[q].booking.cabin_number \in 1..3) =>
            req[q].slots =
                SelectSeq(all_slots,
                          LAMBDA slot : Holders(req[q].booking.reservation_date,
                                                req[q].booking.cabin_number, slot) = {})

\* The cabins of 1, 2, 3 that no reservation holds at the slot on the date.
FreeCabins(date, slot) ==
    SelectSeq(<<1, 2, 3>>, LAMBDA c : Holders(date, c, slot) = {})

\* C29: the answer for a date without a cabin has an entry for every catalog
\* slot, in catalog order, whose count is 3 minus the number of distinct
\* cabins held at the slot, whose list is exactly the cabins not held, and
\* whose count is the length of its list.
C29_AllCabinsAvailability ==
    \A q \in ReqIds :
        (Answered(q) /\ req[q].booking.cabin_number = 0) =>
            /\ Len(req[q].slots) = Len(all_slots)
            /\ \A i \in 1..Len(req[q].slots) :
                  LET entry == req[q].slots[i]
                      free == FreeCabins(req[q].booking.reservation_date, all_slots[i])
                  IN  /\ i <= Len(all_slots)
                      /\ entry.time_slot = all_slots[i]
                      /\ entry.available_cabin_numbers = free
                      /\ entry.available_cabins_count = Len(free)
                      /\ entry.available_cabins_count
                            = Len(entry.available_cabin_numbers)

\* The addresses of the documents register inserted.
Emails(documents) == {documents[i].email : i \in 1..Len(documents)}

\* C30: registration does not depend on the delivery of the message.  A
\* register with an address no user has is admitted, inserts one unverified
\* user with that address, and is answered with success whether the message
\* was sent or not; a register with an address a user has fails and inserts
\* nothing.
C30_RegisterWithoutMail ==
    [][\A q \in ReqIds :
          /\ \A email \in EmailInputs :
                register(q, email) =>
                    IF email \in Emails(registered)
                    THEN /\ req'[q].pc = "done" /\ req'[q].result = "BadRequest"
                         /\ registered' = registered
                    ELSE req'[q].pc = "insert" /\ req'[q].email = email
          /\ register_insert(q) =>
                registered' = Append(registered,
                                     [email |-> req[q].email, is_verified |-> FALSE])
          /\ (req[q].op = "register" /\ req[q].pc = "send" /\ Acts(q)) =>
                /\ req'[q].pc = "done" /\ req'[q].result = "ok"
                /\ registered' = registered
                /\ req[q].email \in Emails(registered)]_vars

\* C30 witness: two addresses are registered, both unverified, the message
\* to the first was sent and the one to the second was not, and the last
\* request, for the second address, was answered with success.
C30_Witness ==
    /\ registered = << [email |-> "ana@example.com", is_verified |-> FALSE],
                       [email |-> "luis@example.com", is_verified |-> FALSE] >>
    /\ mail = <<"ana@example.com">>
    /\ req[1].op = "register" /\ req[1].pc = "done"
    /\ req[1].email = "luis@example.com"
    /\ req[1].result = "ok"

\* A login that must not pass: no account has the email, or the password is
\* not the account's.
WrongCredentials(email, password) ==
    \/ find_user(email) = ""
    \/ password_hash[find_user(email)] # hash_password(password)

\* A request to the current-user endpoint without a credential, or with a
\* token no document of db.user_sessions holds.
NoStoredSession(authorization) ==
    \/ authorization.scheme # "Bearer"
    \/ find_session(user_sessions, authorization) = 0

\* C31, as stated: a login with an unknown email or a wrong password returns
\* 401 and creates no session, and get_me returns 401 for a request with no
\* credential or with a token that has no stored session.
C31_Stated ==
    [][\A q \in ReqIds :
         /\ \A email \in LoginEmails, password \in PasswordInputs :
              login(q, email, password) /\ WrongCredentials(email, password)
                  => /\ req'[q].pc = "done"
                     /\ req'[q].result = "Unauthorized"
                     /\ user_sessions' = user_sessions
         /\ \A a \in HeldCredentials :
              get_me(q, a) /\ NoStoredSession(a)
                  => req'[q].pc = "done" /\ req'[q].result = "Unauthorized"]_vars

\* The status of a refused login: the account's state is looked at before the
\* password.
RefusedLogin(email) ==
    IF find_user(email) = "" THEN "Unauthorized"
    ELSE IF is_blocked[find_user(email)] THEN "Forbidden"
    ELSE IF oauth_provider(find_user(email)) # "" THEN "BadRequest"
    ELSE "Unauthorized"

\* C31, amended: a login with an unknown email or a wrong password is refused
\* at once and creates no session; it returns 401 unless the account is
\* blocked (403) or an OAuth account (400).  get_me returns 401 for a request
\* with no credential or with a token that has no stored session.
C31_CredentialsRequired ==
    [][\A q \in ReqIds :
         /\ \A email \in LoginEmails, password \in PasswordInputs :
              login(q, email, password) /\ WrongCredentials(email, password)
                  => /\ req'[q].pc = "done"
                     /\ req'[q].result = RefusedLogin(email)
                     /\ user_sessions' = user_sessions
         /\ \A a \in HeldCredentials :
              get_me(q, a) /\ NoStoredSession(a)
                  => req'[q].pc = "done" /\ req'[q].result = "Unauthorized"]_vars

\* C31 witness: while a session is stored, a login for the customer's account
\* was answered 401 (the account is not blocked, so its password was wrong).
C31_Witness ==
    /\ req[1].op = "login" /\ req[1].pc = "done"
    /\ req[1].email = email_of("u1")
    /\ req[1].result = "Unauthorized"
    /\ user_sessions # <<>>

\* C32: reconciliation grants entitlement only to the payer: a user has a
\* subscription plan only if a paid payment transaction records that user as
\* its user_id with that plan, whichever user polled the session's status.
C32_EntitlementToPayer ==
    \A u \in UserIds :
        users[u] # "basic"
            => \E i \in 1..Len(payment_transactions) :
                   /\ payment_transactions[i].user_id = u
                   /\ payment_transactions[i].payment_status = "paid"
                   /\ payment_transactions[i].plan_type = users[u]

\* A token in force: a document of db.user_sessions holds it and the account
\* it names is not blocked.
InForce(authorization) ==
    /\ find_session(user_sessions, authorization) # 0
    /\ authorization.sub \in DOMAIN is_blocked
    /\ ~is_blocked[authorization.sub]

\* The step that serves a credential-gated request: the video, the current
\* user, the logout.
Serves(q) ==
    /\ req[q].pc # "done" /\ req'[q].pc = "done"
    /\ \/ req[q].op \in {"stream", "me"} /\ req'[q].result = "served"
       \/ req[q].op = "logout" /\ req'[q].result = "ok"

\* C33: blocking and logout take effect on every authenticated endpoint: with
\* requests served one after the other, a request carrying a token login
\* issued is served by stream_video, get_me or logout only while the token's
\* session is stored (it was not logged out and its user was not blocked
\* since the login) and its user is not blocked.
C33_RevokedTokenRefused ==
    [][\A q \in ReqIds :
         Serves(q) /\ req[q].authorization \in tokens
             => InForce(req[q].authorization)]_vars

\* The session documents of the accounts other than user_id, in order.
SessionsOfOthers(sessions, user_id) == SelectSeq(sessions, LAMBDA d : d.user_id # user_id)

\* C34: every step of reset_password for the account owning the reset token
\* leaves the password_hash of every other account and the sessions of every
\* other account unchanged.
C34_ResetFrame ==
    [][\A q \in ReqIds :
         req'[q].op = "reset" /\ req'[q] # req[q]
             => LET u == find_user(req'[q].email)
                IN  /\ \A v \in Accounts \ {u} : password_hash'[v] = password_hash[v]
                    /\ SessionsOfOthers(user_sessions', u)
                           = SessionsOfOthers(user_sessions, u)]_vars

\* C35: each upload session's received set is a subset of
\* {0, ..., total_chunks-1}, so the received count upload_chunk reports never
\* exceeds the total it reports.
C35_ReceivedWithinTotal ==
    \A upload_id \in DOMAIN chunked_uploads :
        /\ chunked_uploads[upload_id].received_chunks
               \subseteq 0..(chunked_uploads[upload_id].total_chunks - 1)
        /\ Cardinality(chunked_uploads[upload_id].received_chunks)
               <= chunked_uploads[upload_id].total_chunks

\* The step by which a complete_chunked_upload request returns a failure.
CompleteFails(q) ==
    /\ req'[q] # req[q]
    /\ req'[q].op = "complete" /\ req'[q].pc = "done"
    /\ req'[q].result \in {"IncompleteUpload", "CombineError"}

\* C36: a failed complete_chunked_upload leaves the upload recoverable: when
\* the request returns missing chunks or an error while combining, the
\* session is still present and so is the chunk file of every received index.
C36_FailedCompleteRecoverable ==
    [][\A q \in ReqIds :
         CompleteFails(q)
             => /\ req'[q].upload_id \in DOMAIN chunked_uploads'
                /\ \A i \in chunked_uploads'[req'[q].upload_id].received_chunks :
                       chunk_path(req'[q].upload_id, i) \in DOMAIN uploads']_vars

\* Chunks were written for the session, those of the indices 0 .. n-1.
ProperlyFilled(upload_id) ==
    /\ Written(upload_id) # {}
    /\ Written(upload_id) = 0..(Cardinality(Written(upload_id)) - 1)

\* C37: two complete_chunked_upload calls for one fully received session, one
\* on each slot, whatever their interleaving: when both have returned (neither
\* with missing chunks), one returned success and the other SessionNotFound,
\* and the final file holds the chunks in index order.
C37_ConcurrentCompletions ==
    \A p, q \in ReqIds :
        ( /\ p # q
          /\ req[p].op = "complete" /\ req[p].pc = "done"
          /\ req[q].op = "complete" /\ req[q].pc = "done"
          /\ req[p].upload_id = req[q].upload_id
          /\ ProperlyFilled(req[p].upload_id)
          /\ req[p].result # "IncompleteUpload"
          /\ req[q].result # "IncompleteUpload" )
            => /\ {req[p].result, req[q].result} = {"ok", "SessionNotFound"}
               /\ FileName(req[p].upload_id, ".mp4") \in DOMAIN uploads
               /\ uploads[FileName(req[p].upload_id, ".mp4")]
                      = InOrder(Cardinality(Written(req[p].upload_id)))

\* C38: only the owning user can finalize an upload: complete_chunked_upload
\* called by an account other than the session's user_id fails with Forbidden
\* and leaves the session and its chunk files unchanged.
C38_OwnerFinalizes ==
    [][\A q \in ReqIds, u \in UserIds, id \in 1..MaxUploads :
           ( /\ complete_chunked_upload(q, u, id)
             /\ id \in DOMAIN chunked_uploads
             /\ chunked_uploads[id].user_id # u )
               => Refused(q, "Forbidden")]_vars

\* C39: every 206 response of stream_video is well-formed: in Content-Range
\* 0 <= start <= end < total, Content-Length is end - start + 1 and at least
\* 1, and the body has exactly Content-Length bytes.
C39_PartialContentWellFormed ==
    \A q \in ReqIds :
        (req[q].op = "stream" /\ req[q].result = "served" /\ req[q].response.status = 206)
            => LET response == req[q].response
               IN  /\ 0 <= response.start
                   /\ response.start <= response.end
                   /\ response.end < response.file_size
                   /\ response.content_length = response.end - response.start + 1
                   /\ response.content_length >= 1
                   /\ Len(response.body) = response.content_length

\* The labels of the catalog.
CatalogLabels == {all_slots[k] : k \in DOMAIN all_slots}

\* C40: every stored reservation refers to a bookable resource: its
\* cabin_number is in {1, 2, 3} and its time_slot is one of the catalog
\* labels, so that a non-cancelled reservation takes its slot out of the
\* slots the availability query answers for its date and cabin.
C40_BookableResource ==
    \A i \in 1..Len(reservations) :
        /\ reservations[i].cabin_number \in {1, 2, 3}
        /\ reservations[i].time_slot \in CatalogLabels
        /\ Holds(reservations[i])
              => ~InSeq(reservations[i].time_slot,
                        available_slots(reservations[i].reservation_date,
                                        reservations[i].cabin_number))

====
